---- MODULE Spec2Model ----
(***************************************************************************)
(* The dispatch engine of llm-serving: CoreEngine (src/src/engine/mod.rs)  *)
(* and the HTTP handlers that drive it (src/src/api/routes.rs).            *)
(*                                                                         *)
(* A request lives in a slot.  A slot is taken when a request arrives,     *)
(* follows the handler (hpc) and, once its envelope is enqueued, the       *)
(* detached execution the supervisor spawns for it (wpc); it is freed when *)
(* both have ended, so the number of requests is unbounded and only the    *)
(* number of requests in flight is bounded.                                *)
(***************************************************************************)
EXTENDS Integers, Sequences, FiniteSets, TLC

\* ------------------------------------------------------------------ bounds
\* Requests in flight at the same time.
MaxReq == 2
\* Largest ENGINE_WORKERS value tried.
MaxW == 1
\* Capacity of the dispatch queue; mpsc::channel(100) in the source
\* (engine/mod.rs:50), scaled down so that a full queue is reachable with
\* MaxReq requests in flight.
QueueCap == 2

\* Cells per minute of the rate limiter; Quota::per_minute(60) in the source
\* (api/auth.rs:9), scaled down so that the quota is reached with the slots
\* there are.  One tick of the clock is the replenish interval, 60 s / quota.
QuotaPerMinute == 2
\* The clock stops here.
MaxTime == 3

\* ------------------------------------------------------- program constants
\* unwrap_or(4) of the worker count (engine/mod.rs:116).
DefaultWorkers == 4
\* GenerationOptions::from_request defaults (runtime/mod.rs:41).
DefaultMaxTokens == 100

\* A slot for every request that is in flight in some specification.
Slots == 1..(IF MaxReq > MaxW + QueueCap + 1 THEN MaxReq ELSE MaxW + QueueCap + 1)

\* ------------------------------------------------------------ option, result
None == [some |-> FALSE]
Some(v) == [some |-> TRUE, v |-> v]
Ok(v) == [ok |-> TRUE, val |-> v]
Err(e) == [ok |-> FALSE, err |-> e]

\* ------------------------------------------------------------------ dto.rs
\* ChatMessageContent: Text(String) | Parts(Vec<ContentPart>)
Text(s) == [tag |-> "Text", text |-> s, parts |-> <<>>]
Parts(ps) == [tag |-> "Parts", text |-> "", parts |-> ps]
\* ContentPart: Text { text } | ImageUrl { image_url }
TextPart(s) == [type |-> "text", text |-> s, url |-> ""]
ImageUrlPart(u) == [type |-> "image_url", text |-> "", url |-> u]
ChatCompletionMessage(role, content) == [role |-> role, content |-> content]

ChatCompletionRequest(model, messages, stream) ==
    [kind |-> "chat", model |-> model, messages |-> messages, stream |-> stream,
     max_tokens |-> None, temperature |-> None, top_p |-> None]
EmbeddingsRequest(model, input) ==
    [kind |-> "embeddings", model |-> model, input |-> input]
ImagesGenerationRequest(model, prompt, n, size) ==
    [kind |-> "images", model |-> model, prompt |-> prompt, n |-> n, size |-> size]
NoRequest == [kind |-> "none"]
\* LoadModelRequest / UnloadModelRequest (dto.rs:162-172) with the route taken.
AdminRequest(route, model_kind, model) ==
    [kind |-> route, model_kind |-> model_kind, model |-> model, path |-> None]
\* LoadModelRequest (dto.rs:162-166) with its path.
LoadModelRequest(model, model_kind, path) ==
    [kind |-> "admin_load", model_kind |-> model_kind, model |-> model, path |-> path]

\* ------------------------------------------------- the registries' locks
\* The four registries, each an Arc<RwLock<HashMap<..>>> (mod.rs:24-27).
RegistryNames == {"llm", "embedding", "multimodal", "image"}
\* tokio::sync::RwLock as built at mod.rs:74, 86, 90, 103: the tasks holding
\* a read guard, the task holding the write guard, and the tasks waiting, in
\* arrival order (the lock is fair: it hands out guards first come, first
\* served, and a waiting writer holds back the readers that come after it).
NewRwLock == [readers |-> {}, writer |-> {}, waiters |-> <<>>]
\* The tasks that take registry locks at one time.
MaxTasks == 3
Tasks == 1..MaxTasks
NoTask == [op |-> "none", kind |-> "", model |-> "", program |-> <<>>,
           found |-> FALSE, waiting |-> FALSE]

\* ------------------------------------------------------- inputs (small sets)
ChatModels == {"dummy-model"}
TextMessages == << ChatCompletionMessage("user", Text("hello")) >>
VisionMessages ==
    << ChatCompletionMessage("user",
         Parts(<< TextPart("look at this"), ImageUrlPart("https://example.com/img.jpg") >>)) >>
\* Message lists of up to MaxMessages messages, with text and parts contents.
MaxMessages == 2
PromptContents ==
    { Text("hello"), Text(""),
      Parts(<< TextPart("a "), ImageUrlPart("u1"), TextPart("b"), ImageUrlPart("u2") >>),
      Parts(<< TextPart("b"), TextPart("a ") >>),
      Parts(<< >>) }
PromptMessages ==
    { ChatCompletionMessage(role, c) : role \in {"user", "system"}, c \in PromptContents }
PromptMessageLists ==
    UNION { [1..n -> PromptMessages] : n \in 0..MaxMessages }
ChatRequests ==
    { ChatCompletionRequest(m, ms, s) :
        m \in ChatModels, ms \in {TextMessages, VisionMessages}, s \in BOOLEAN }
EmbeddingsRequests ==
    { EmbeddingsRequest(m, <<"hello", "world">>) : m \in {"dummy-embedding", "dummy-model"} }
ImagesRequests ==
    { ImagesGenerationRequest(m, "a cute cat", 2, "256x256") : m \in {"dummy-image", "dummy-model"} }
Requests == ChatRequests \cup EmbeddingsRequests \cup ImagesRequests

\* Names and kinds the admin operations are tried with.
AdminNames == {"dummy-model"}
AdminKinds == {"llm", "embedding", "multimodal"}

\* Values Uuid::new_v4() and SystemTime::now() may return together.
Stamps == { [id |-> "uuid-a", created |-> 1700000000],
            [id |-> "uuid-b", created |-> 1700000001] }
\* Values of the ENGINE_WORKERS variable and results of available_parallelism.
EngineWorkersEnv == {None, Some("junk"), Some("-1")} \cup { Some(ToString(n)) : n \in 0..MaxW }
AvailableParallelism == { Some(n) : n \in 1..MaxW }
\* Cargo features a build may enable, and the provider seed variables.
Features == {"llama", "onnx", "llava"}
ProviderEnvVars ==
    {"LLAMA_MODEL_PATH", "ONNX_EMBEDDING_MODEL_PATH",
     "LLAVA_VISION_MODEL_PATH", "LLAVA_PROJECTION_PATH"}
\* Paths are sequences of characters: "g" is a file every loader accepts,
\* "x" a file no loader can open.
ModelPaths == { <<"g">>, <<"x">> }
LoadPaths ==
    { None, Some(<<"g">>), Some(<<"x">>),
      Some(<< "g", ",", "g", ",", "g" >>), Some(<< "g", ",", "x", ",", "g" >>) }
\* The default build with no seed variable set, and the builds and
\* environments tried.
DefaultProvider == [features |-> {}, env |-> [v \in ProviderEnvVars |-> None]]
\* The seed variables are all unset, or all set, with the llama model and
\* the other files each loadable or not.
ProviderEnvs ==
    { [v \in ProviderEnvVars |-> None] } \cup
    { [v \in ProviderEnvVars |-> IF v = "LLAMA_MODEL_PATH" THEN Some(llama) ELSE Some(other)] :
        llama \in ModelPaths, other \in ModelPaths }
ProviderConfigs ==
    { [features |-> f, env |-> e] : f \in SUBSET Features, e \in ProviderEnvs }
\* Error messages a backend may fail with.
BackendErrors == {"backend failure"}
\* Texts the gate takes apart are sequences of characters.
BearerPrefix == << "B", "e", "a", "r", "e", "r", " " >>
\* Values of the authorization header: None when the header is missing.
AuthorizationHeaders ==
    { None,
      Some(BearerPrefix \o <<"a">>), Some(BearerPrefix \o <<"b">>),
      Some(BearerPrefix \o <<"z">>), Some(BearerPrefix),
      Some(BearerPrefix \o <<" ", "a">>),
      Some(<< "b", "e", "a", "r", "e", "r", " ", "a" >>),
      Some(<< "B", "a", "s", "i", "c", " ", "a" >>),
      Some(<<"a">>) }
\* Values of API_KEYS: unset, empty, blank entries only, one key, two keys
\* with blanks around them.
ApiKeysEnvValues ==
    { None, Some(<<>>), Some(<< " ", ",", "," >>), Some(<<"a">>),
      Some(<< "a", ",", " ", "b", " ", "," >>) }

VARIABLES
    llm_runtimes,          \* CoreEngine.llm_runtimes: name -> the runtime installed
    embedding_runtimes,    \* CoreEngine.embedding_runtimes
    multimodal_runtimes,   \* CoreEngine.multimodal_runtimes
    image_runtimes,        \* CoreEngine.image_runtimes
    workers,               \* the permit count W the semaphore was built with
    provider,              \* the build's features and the provider seed variables
    receiver_dropped,      \* the receiving end of the dispatch queue is gone
    rwlock,                \* per registry: the state of its tokio RwLock
    tasks,                 \* per task that takes registry locks: what it has left to do
    api_keys_env,          \* the environment variable API_KEYS: None or Some(text)
    rate_limiter,          \* RATE_LIMITER: token -> theoretical arrival time
    now,                   \* the clock, in replenish intervals of the limiter
    headers,               \* per slot: the authorization header and the arrival time
    semaphore,             \* permits available
    request_queue,         \* the dispatch queue: slots of the envelopes, in order
    response_cache,        \* CoreEngine.response_cache: key -> ChatCompletionResponse
    req,                   \* slot -> the request it carries
    hpc,                   \* slot -> where its HTTP handler is
    wpc,                   \* slot -> where its spawned execution is
    exec,                  \* slot -> the locals of its execution
    response_rx,           \* slot -> reply channel (capacity 1)
    stream_rx,             \* slot -> stream emitter channel
    http,                  \* slot -> what the client got
    counters               \* slot -> the cache counters its handler incremented

vars == << llm_runtimes, embedding_runtimes, multimodal_runtimes, image_runtimes,
           workers, provider, receiver_dropped, rwlock, tasks, api_keys_env, rate_limiter, now, headers,
           semaphore, request_queue, response_cache,
           req, hpc, wpc, exec, response_rx, stream_rx, http, counters >>

registries == << llm_runtimes, embedding_runtimes, multimodal_runtimes, image_runtimes >>
\* What only the gate and the clock change.
gate_state == << api_keys_env, rate_limiter, now >>

\* ------------------------------------------------------------------ helpers
NoExec ==
    [permit |-> FALSE, found |-> FALSE, llm_opt |-> FALSE, mm_opt |-> FALSE,
     prompt |-> "", image_urls |-> <<>>,
     id |-> "", created |-> 0, call |-> "none", result |-> None]
NoCounters == [cache_hit_total |-> 0, cache_miss_total |-> 0, cache_store_total |-> 0]
\* A channel towards the client: what was written to it so far, whether the
\* receiver is dropped, whether every sender is dropped.
NewChannel == [items |-> <<>>, rx_closed |-> FALSE, tx_dropped |-> FALSE]
NoHttp == [status |-> 0]
NoHeaders == [authorization |-> None, at |-> 0]

\* mpsc::Sender::send(..).await with the result discarded (let _ = ...): the
\* message is buffered unless the receiver is gone.
\* The buffer of a stream emitter: mpsc::channel::<String>(100), routes.rs:30.
StreamBuffer == 100
\* Mutant of ChanCanSend: the emitter has room for one message, like the
\* reply channel.
ChanCanSendOne(ch, cap) == ch.rx_closed \/ ch.items = << >>
\* send(..).await returns when the message is buffered or the receiver is
\* gone; with a full buffer it waits for the receiver to read.  Nothing is
\* read from an emitter before its stream is handed to the client, and a
\* client may never read.
ChanCanSend(ch, cap) == ch.rx_closed \/ Len(ch.items) < cap
\* Mutant of ChanSend: the message is buffered even when the receiver is gone.
ChanSendAlways(ch, msg) == [ch EXCEPT !.items = Append(@, msg)]
ChanSend(ch, msg) ==
    IF ch.rx_closed THEN ch ELSE [ch EXCEPT !.items = Append(@, msg)]

\* ------------------------------------------------- runtime/mod.rs, dummies
\* GenerationOptions::from_request: absent fields take the defaults.
GenerationOptions_from_request(max_tokens, temperature, top_p) ==
    [max_tokens  |-> IF max_tokens.some THEN max_tokens.v ELSE DefaultMaxTokens,
     temperature |-> IF temperature.some THEN temperature.v ELSE "1.0",
     top_p       |-> IF top_p.some THEN top_p.v ELSE "1.0"]

\* prompt.chars().take(n).collect(): every text of the model is shorter than
\* the token limits in use, a longer one is cut (marked, not computed).
TakeChars(s, n) == IF Len(s) <= n THEN s ELSE "<first " \o ToString(n) \o " chars of " \o s \o ">"

\* DummyRuntime as LlmRuntime.
DummyGenerate(prompt, options) == "Echo: " \o TakeChars(prompt, options.max_tokens)
\* DummyRuntime as MultimodalRuntime.
DummyGenerateFromVision(text, image_urls, options) ==
    LET head == "Echo(Vision): " \o text
        response == IF image_urls # <<>>
                    THEN head \o " | images=" \o ToString(Len(image_urls))
                    ELSE head
    IN  TakeChars(response, options.max_tokens)
\* DummyEmbeddingRuntime: one vector per input, in input order.
DummyEmbed(inputs) == [i \in 1..Len(inputs) |-> [vector_of |-> inputs[i]]]
\* DummyImageRuntime: n placeholder payloads tagged with the size.
DummyGenerateImages(prompt, n, size) == [i \in 1..n |-> "DUMMY_PNG:" \o size \o ":"]

\* What a backend call made for slot-local arguments may return: the traits
\* return Result<_, String>, so any runtime may fail.
BackendOk(call, r, prompt, image_urls, options) ==
    CASE call = "generate" -> DummyGenerate(prompt, options)
      [] call = "generate_from_vision" -> DummyGenerateFromVision(prompt, image_urls, options)
      [] call = "embed" -> DummyEmbed(r.input)
      [] call = "generate_images" -> DummyGenerateImages(r.prompt, r.n, r.size)

\* ------------------------------------------------------------ api/auth.rs
\* str::trim, str::split(','), str::strip_prefix on sequences of characters.
RECURSIVE TrimStart(_), TrimEnd(_), SplitComma(_, _)
TrimStart(t) == IF t # <<>> /\ Head(t) = " " THEN TrimStart(Tail(t)) ELSE t
TrimEnd(t) ==
    IF t # <<>> /\ t[Len(t)] = " " THEN TrimEnd(SubSeq(t, 1, Len(t) - 1)) ELSE t
Trim(t) == TrimEnd(TrimStart(t))
\* The pieces of t between commas; acc is the piece being read.
SplitComma(t, acc) ==
    IF t = <<>> THEN << acc >>
    ELSE IF Head(t) = "," THEN << acc >> \o SplitComma(Tail(t), <<>>)
    ELSE SplitComma(Tail(t), Append(acc, Head(t)))
\* Mutant of StripPrefix: blanks after the prefix are skipped.
StripPrefixTrimmed(t, prefix) ==
    IF Len(t) >= Len(prefix) /\ SubSeq(t, 1, Len(prefix)) = prefix
    THEN Some(Trim(SubSeq(t, Len(prefix) + 1, Len(t))))
    ELSE None
StripPrefix(t, prefix) ==
    IF Len(t) >= Len(prefix) /\ SubSeq(t, 1, Len(prefix)) = prefix
    THEN Some(SubSeq(t, Len(prefix) + 1, Len(t)))
    ELSE None
\* auth.rs:15-20: the keys configured.
ApiKeys(keys_env) ==
    LET pieces == SplitComma(IF keys_env.some THEN keys_env.v ELSE <<>>, <<>>)
        kept == SelectSeq(pieces, LAMBDA piece : Trim(piece) # <<>>)
    IN  [i \in 1..Len(kept) |-> Trim(kept[i])]
\* The keyed limiter of governor, Quota::per_minute(n): replenish interval t =
\* 60 s / n (one tick), tolerance tau = t * n; a key that was never seen
\* starts at now + t; a cell is granted unless now < tat - tau, and then tat
\* becomes max(tat, now) + t.  A refusal leaves the state as it is.
LimiterTat(limiter, key) == IF key \in DOMAIN limiter THEN limiter[key] ELSE now + 1
CheckKey(limiter, key) ==
    LET tat == LimiterTat(limiter, key)
        earliest == IF tat > QuotaPerMinute THEN tat - QuotaPerMinute ELSE 0
    IN  IF now < earliest
        THEN [ok |-> FALSE, limiter |-> limiter]
        ELSE [ok |-> TRUE,
              limiter |-> [k \in DOMAIN limiter \cup {key} |->
                             IF k = key THEN (IF tat > now THEN tat ELSE now) + 1
                             ELSE limiter[k]]]
\* authorize_request (auth.rs:13-39): the verdict and the limiter after it.
authorize_request(authorization, keys_env, limiter) ==
    LET keys == ApiKeys(keys_env)
        auth_header == IF authorization.some THEN authorization.v ELSE <<>>
        token == StripPrefix(auth_header, BearerPrefix)
    IN  IF keys = <<>> THEN [result |-> Ok("()"), limiter |-> limiter]
        ELSE IF token.some /\ \E i \in 1..Len(keys) : keys[i] = token.v
        THEN LET checked == CheckKey(limiter, token.v)
             IN  IF checked.ok
                 THEN [result |-> Ok("()"), limiter |-> checked.limiter]
                 ELSE [result |-> Err("Rate limit exceeded"), limiter |-> limiter]
        ELSE [result |-> Err("Unauthorized"), limiter |-> limiter]

\* ----------------------------------------------- engine/mod.rs, pure parts
\* workers: ENGINE_WORKERS parsed as usize, else available_parallelism, else 4.
\* env is None (unset) or Some(text); par is None (the call failed) or Some(n),
\* n a NonZeroUsize.  str::parse::<usize>: the number a decimal text denotes.
ParseUsize(text) ==
    IF \E n \in 0..MaxW : ToString(n) = text
    THEN Some(CHOOSE n \in 0..MaxW : ToString(n) = text)
    ELSE None
Workers(env, par) ==
    LET parsed == IF env.some THEN ParseUsize(env.v) ELSE None
    IN  IF parsed.some THEN parsed.v
        ELSE IF par.some THEN par.v
        ELSE DefaultWorkers

\* The prompt and the image URLs of the last message (mod.rs:162-176).
RECURSIVE PartsText(_), PartsUrls(_)
PartsText(parts) ==
    IF parts = <<>> THEN ""
    ELSE LET p == Head(parts)
         IN  (IF p.type = "text" THEN p.text ELSE "") \o PartsText(Tail(parts))
PartsUrls(parts) ==
    IF parts = <<>> THEN <<>>
    ELSE LET p == Head(parts)
         IN  (IF p.type = "image_url" THEN <<p.url>> ELSE <<>>) \o PartsUrls(Tail(parts))
\* Mutant of PromptAndImages: the prompt is taken from the first message.
PromptAndImagesFirst(messages) ==
    IF messages = <<>> THEN [prompt |-> "", image_urls |-> <<>>]
    ELSE LET content == messages[1].content
         IN  IF content.tag = "Text"
             THEN [prompt |-> content.text, image_urls |-> <<>>]
             ELSE [prompt |-> PartsText(content.parts), image_urls |-> PartsUrls(content.parts)]
PromptAndImages(messages) ==
    IF messages = <<>> THEN [prompt |-> "", image_urls |-> <<>>]
    ELSE LET content == messages[Len(messages)].content
         IN  IF content.tag = "Text"
             THEN [prompt |-> content.text, image_urls |-> <<>>]
             ELSE [prompt |-> PartsText(content.parts), image_urls |-> PartsUrls(content.parts)]

\* The text of a failed generation in a stream: format!("[error: {}]", e).
ErrorText(e) == "[error: " \o e \o "]"

\* Streaming branch, mod.rs:198-213: which backend is called, or the error
\* the generation is replaced by when none is.
StreamRoute(image_urls, llm_opt, mm_opt) ==
    IF image_urls = <<>>
    THEN IF llm_opt THEN [call |-> "generate", direct |-> None]
         ELSE [call |-> "none", direct |-> Some(Err("Model requires images"))]
    ELSE IF mm_opt THEN [call |-> "generate_from_vision", direct |-> None]
         ELSE IF llm_opt THEN [call |-> "generate", direct |-> None]
         ELSE [call |-> "none", direct |-> Some(Err("Model not available"))]
\* Mutant of StreamGenerated: a failed generation becomes the empty text, as
\* in the buffered branch.
StreamGeneratedDefault(result) == IF result.ok THEN result.val ELSE ""
\* .unwrap_or_else(|e| format!("[error: {}]", e)), mod.rs:213.
StreamGenerated(result) == IF result.ok THEN result.val ELSE ErrorText(result.err)

\* Buffered branch, mod.rs:248-262: which backend is called, or the text
\* that stands for the generation when none is.
BufferedRoute(image_urls, llm_opt, mm_opt) ==
    IF image_urls = <<>>
    THEN IF llm_opt THEN [call |-> "generate", direct |-> None]
         ELSE [call |-> "none", direct |-> Some("[error: Model requires images]")]
    ELSE IF mm_opt THEN [call |-> "generate_from_vision", direct |-> None]
         ELSE IF llm_opt THEN [call |-> "generate", direct |-> None]
         ELSE [call |-> "none", direct |-> Some("[error: Model not available]")]
\* Mutant of BufferedGenerated: a failed generation is reported in the text,
\* as in the streaming branch.
BufferedGeneratedErrorText(result) == IF result.ok THEN result.val ELSE ErrorText(result.err)
\* .unwrap_or_default(), mod.rs:250,256,258.
BufferedGenerated(result) == IF result.ok THEN result.val ELSE ""

\* The three chunks of a stream (mod.rs:184-237) and the sentinel (mod.rs:240).
ChatCompletionChunk(id, created, model, delta, finish_reason) ==
    [id |-> id, object |-> "chat.completion.chunk", created |-> created, model |-> model,
     choices |-> << [index |-> 0, delta |-> delta, finish_reason |-> finish_reason] >>]
Delta(role, content) == [role |-> role, content |-> content]
RoleChunk(id, created, model) ==
    ChatCompletionChunk(id, created, model, Delta(Some("assistant"), None), None)
ContentChunk(id, created, model, generated) ==
    ChatCompletionChunk(id, created, model, Delta(None, Some(generated)), None)
\* Mutant of DoneChunk: the creation time is read again for the last chunk.
DoneChunkRestamped(id, created, model) ==
    ChatCompletionChunk(id, created + 1, model, Delta(None, None), Some("stop"))
DoneChunk(id, created, model) ==
    ChatCompletionChunk(id, created, model, Delta(None, None), Some("stop"))
DoneSentinel == "[DONE]"

\* The buffered response (mod.rs:263-278).
ChatCompletionResponse(id, created, model, generated) ==
    [id |-> id, object |-> "chat.completion", created |-> created, model |-> model,
     choices |-> << [index |-> 0,
                     message |-> [role |-> "assistant", content |-> generated],
                     finish_reason |-> "stop"] >>,
     usage |-> [prompt_tokens |-> 0, completion_tokens |-> 0, total_tokens |-> 0]]

\* The embeddings response (mod.rs:303-313).
EmbeddingsResponse(model, vectors) ==
    [data |-> [i \in 1..Len(vectors) |->
                 [object |-> "embedding", index |-> i - 1, embedding |-> vectors[i]]],
     model |-> model, object |-> "list",
     usage |-> [prompt_tokens |-> 0, total_tokens |-> 0]]

NotFoundMessage(model_name) == "Model " \o model_name \o " not found"

\* hash_chat_request (mod.rs:403-424): the bytes fed to the hasher, in order.
\* to_le_bytes of an option value is written as a tagged text.
LeBytes(v) == "<le:" \o ToString(v) \o ">"
RECURSIVE HashParts(_), HashMessages(_)
HashParts(parts) ==
    IF parts = <<>> THEN ""
    ELSE LET p == Head(parts)
         IN  (IF p.type = "text" THEN p.text ELSE p.url) \o HashParts(Tail(parts))
HashMessages(messages) ==
    IF messages = <<>> THEN ""
    ELSE LET m == Head(messages)
         IN  m.role
             \o (IF m.content.tag = "Text" THEN m.content.text ELSE HashParts(m.content.parts))
             \o HashMessages(Tail(messages))
HashInput(r) ==
    r.model \o HashMessages(r.messages)
    \o (IF r.max_tokens.some THEN LeBytes(r.max_tokens.v) ELSE "")
    \o (IF r.temperature.some THEN LeBytes(r.temperature.v) ELSE "")
    \o (IF r.top_p.some THEN LeBytes(r.top_p.v) ELSE "")
\* SHA-256 taken as injective: the digest stands for the bytes hashed.
hash_chat_request(r) == "sha256:" \o HashInput(r)

\* ------------------------------------------------------ api/error.rs, routes
\* AppError::into_response (error.rs:20-33).
AppErrorResponse(variant, msg) ==
    [status |-> CASE variant = "InternalServerError" -> 500
                  [] variant = "BadRequest" -> 400
                  [] variant = "NotFound" -> 404,
     kind |-> "error", body |-> [message |-> msg]]
\* impl From<String> for AppError (error.rs:36-40): what `?` does to an Err.
AppErrorFromString(msg) == AppErrorResponse("InternalServerError", msg)
JsonResponse(body) == [status |-> 200, kind |-> "json", body |-> body]
SseResponse(items) == [status |-> 200, kind |-> "sse", body |-> items]

\* chat_completions, buffered (routes.rs:43-44).
ChatHttp(result) ==
    IF result.ok THEN JsonResponse(result.val) ELSE AppErrorFromString(result.err)
\* Mutant of EmbeddingsHttp: the error goes through From<String>, as in the
\* chat handler.
EmbeddingsHttpInternal(result) ==
    IF result.ok THEN JsonResponse(result.val) ELSE AppErrorFromString(result.err)
\* embeddings (routes.rs:54-57).
EmbeddingsHttp(result) ==
    IF result.ok THEN JsonResponse(result.val) ELSE AppErrorResponse("BadRequest", result.err)
\* images_generations (routes.rs:66-79).
ImagesHttp(result, created) ==
    IF result.ok
    THEN JsonResponse([created |-> created,
                       data |-> [i \in 1..Len(result.val) |->
                                   [b64_json |-> Some([base64_of |-> result.val[i]])]]])
    ELSE AppErrorResponse("BadRequest", result.err)

\* ------------------------------------------ provider runtimes, registries
\* Whether the file at a path can be opened and is accepted by a loader.
FileLoads(path) == path = <<"g">>
\* LlamaCppRuntime::new (llama_cpp.rs:13-50).
LlamaCppRuntime_new(model_path) ==
    IF FileLoads(model_path) THEN Ok("LlamaCppRuntime") ELSE Err("Failed to open model file")
\* OnnxEmbeddingRuntime::new (onnx_embedding.rs:24-49), no tokenizer feature.
OnnxEmbeddingRuntime_new(features, model_path) ==
    IF "onnx" \notin features THEN Err("onnx feature not enabled")
    ELSE IF FileLoads(model_path) THEN Ok("OnnxEmbeddingRuntime")
    ELSE Err("ORT load model error")
\* LlavaRuntime::new (llava.rs:25-50): each part is loaded only when its
\* feature is compiled in.
LlavaRuntime_new(features, vision_model_path, proj_path, llm_model_path) ==
    IF "onnx" \in features /\ ~FileLoads(vision_model_path)
    THEN Err("ORT load vision model error")
    ELSE IF "onnx" \in features /\ ~FileLoads(proj_path)
    THEN Err("ORT load projection model error")
    ELSE IF "llama" \in features /\ ~FileLoads(llm_model_path)
    THEN Err("Failed to open model file")
    ELSE Ok("LlavaRuntime")
\* format!("load llama: {}", e) and format!("load llava: {}", e).
LoadLlamaError(e) == "load llama: Failed to open model file"
LoadLlavaError(e) ==
    CASE e = "ORT load vision model error" -> "load llava: ORT load vision model error"
      [] e = "ORT load projection model error" -> "load llava: ORT load projection model error"
      [] OTHER -> "load llava: Failed to open model file"

\* HashMap::insert and HashMap::remove on a registry: name -> runtime.
MapInsert(map, name, rt) ==
    [n \in DOMAIN map \cup {name} |-> IF n = name THEN rt ELSE map[n]]
\* Mutant of MapRemove: the registry is emptied.
MapRemoveAll(map, name) == << >>
MapRemove(map, name) == [n \in DOMAIN map \ {name} |-> map[n]]

\* The registries CoreEngine::new builds (mod.rs:52-103): the dummies, and a
\* provider entry for each seed whose feature is compiled in, whose variables
\* are set and whose files load.
NewLlmRuntimes(pv) ==
    LET dummies == MapInsert(<< >>, "dummy-model", "DummyRuntime")
        model_path == pv.env["LLAMA_MODEL_PATH"]
    IN  IF "llama" \in pv.features /\ model_path.some /\ LlamaCppRuntime_new(model_path.v).ok
        THEN MapInsert(dummies, "llama-cpp", "LlamaCppRuntime")
        ELSE dummies
NewEmbeddingRuntimes(pv) ==
    LET dummies == MapInsert(<< >>, "dummy-embedding", "DummyEmbeddingRuntime")
        onnx_model == pv.env["ONNX_EMBEDDING_MODEL_PATH"]
    IN  IF "onnx" \in pv.features /\ onnx_model.some
           /\ OnnxEmbeddingRuntime_new(pv.features, onnx_model.v).ok
        THEN MapInsert(dummies, "onnx-embedding", "OnnxEmbeddingRuntime")
        ELSE dummies
\* The three variables of the llava seed, when all are set.
LlavaEnv(pv) ==
    LET vision == pv.env["LLAVA_VISION_MODEL_PATH"]
        proj == pv.env["LLAVA_PROJECTION_PATH"]
        llm == pv.env["LLAMA_MODEL_PATH"]
    IN  IF vision.some /\ proj.some /\ llm.some
        THEN Some(<< vision.v, proj.v, llm.v >>)
        ELSE None
NewMultimodalRuntimes(pv) ==
    LET dummies == MapInsert(<< >>, "dummy-model", "DummyRuntime")
        triple == LlavaEnv(pv)
    IN  IF "llava" \in pv.features /\ triple.some
           /\ LlavaRuntime_new(pv.features, triple.v[1], triple.v[2], triple.v[3]).ok
        THEN MapInsert(dummies, "llava", "LlavaRuntime")
        ELSE dummies
NewImageRuntimes == MapInsert(<< >>, "dummy-image", "DummyImageRuntime")

\* load_model (mod.rs:467-522): the result and the three registries it may
\* write, from the registries regs = [llm, embedding, multimodal].
\* Mutant of Installed: the registry is replaced by the one entry.
InstalledAlone(regs, kind, name, rt) ==
    [result |-> Ok("()"),
     llm |-> IF kind = "llm" THEN MapInsert(<< >>, name, rt) ELSE regs.llm,
     embedding |-> IF kind = "embedding" THEN MapInsert(<< >>, name, rt)
                   ELSE regs.embedding,
     multimodal |-> IF kind = "multimodal" THEN MapInsert(<< >>, name, rt)
                    ELSE regs.multimodal]
Installed(regs, kind, name, rt) ==
    [result |-> Ok("()"),
     llm |-> IF kind = "llm" THEN MapInsert(regs.llm, name, rt) ELSE regs.llm,
     embedding |-> IF kind = "embedding" THEN MapInsert(regs.embedding, name, rt)
                   ELSE regs.embedding,
     multimodal |-> IF kind = "multimodal" THEN MapInsert(regs.multimodal, name, rt)
                    ELSE regs.multimodal]
\* Mutant of Failed: the error is swallowed.
FailedSilently(regs, e) ==
    [result |-> Ok("()"), llm |-> regs.llm, embedding |-> regs.embedding,
     multimodal |-> regs.multimodal]
Failed(regs, e) ==
    [result |-> Err(e), llm |-> regs.llm, embedding |-> regs.embedding,
     multimodal |-> regs.multimodal]
load_model(regs, pv, kind, name, path) ==
    CASE kind = "llm" ->
           IF "llama" \in pv.features /\ path.some
           THEN LET rt == LlamaCppRuntime_new(path.v)
                IN  IF rt.ok THEN Installed(regs, kind, name, rt.val)
                    ELSE Failed(regs, LoadLlamaError(rt.err))
           ELSE Installed(regs, kind, name, "DummyRuntime")
      [] kind = "embedding" ->
           IF "onnx" \in pv.features /\ path.some
              /\ OnnxEmbeddingRuntime_new(pv.features, path.v).ok
           THEN Installed(regs, kind, name, "OnnxEmbeddingRuntime")
           ELSE Installed(regs, kind, name, "DummyEmbeddingRuntime")
      [] kind = "multimodal" ->
           LET parts == IF path.some THEN SplitComma(path.v, <<>>) ELSE <<>>
               triple == LlavaEnv(pv)
           IN  IF "llava" \in pv.features /\ Len(parts) = 3
               THEN LET rt == LlavaRuntime_new(pv.features, parts[1], parts[2], parts[3])
                    IN  IF rt.ok THEN Installed(regs, kind, name, rt.val)
                        ELSE Failed(regs, LoadLlavaError(rt.err))
               ELSE IF "llava" \in pv.features /\ triple.some
               THEN LET rt == LlavaRuntime_new(pv.features, triple.v[1], triple.v[2], triple.v[3])
                    IN  IF rt.ok THEN Installed(regs, kind, name, rt.val)
                        ELSE Failed(regs, LoadLlavaError(rt.err))
               ELSE Installed(regs, kind, name, "DummyRuntime")
      [] OTHER -> Failed(regs, "unknown kind")
\* Mutant of unload_model: a name that is not installed is an error.
unload_model_strict(regs, kind, name) ==
    IF kind = "llm" /\ name \in DOMAIN regs.llm
    THEN [result |-> Ok("()"), llm |-> MapRemove(regs.llm, name),
          embedding |-> regs.embedding, multimodal |-> regs.multimodal]
    ELSE IF kind = "embedding" /\ name \in DOMAIN regs.embedding
    THEN [result |-> Ok("()"), llm |-> regs.llm,
          embedding |-> MapRemove(regs.embedding, name), multimodal |-> regs.multimodal]
    ELSE IF kind = "multimodal" /\ name \in DOMAIN regs.multimodal
    THEN [result |-> Ok("()"), llm |-> regs.llm,
          embedding |-> regs.embedding, multimodal |-> MapRemove(regs.multimodal, name)]
    ELSE Failed(regs, "unknown kind")
\* unload_model (mod.rs:524-531).
unload_model(regs, kind, name) ==
    IF kind \in {"llm", "embedding", "multimodal"}
    THEN [result |-> Ok("()"),
          llm |-> IF kind = "llm" THEN MapRemove(regs.llm, name) ELSE regs.llm,
          embedding |-> IF kind = "embedding" THEN MapRemove(regs.embedding, name)
                        ELSE regs.embedding,
          multimodal |-> IF kind = "multimodal" THEN MapRemove(regs.multimodal, name)
                         ELSE regs.multimodal]
    ELSE Failed(regs, "unknown kind")
\* list_models (mod.rs:459-465): the keys of each registry, collected in the
\* order the map yields them.
RECURSIVE Keys(_)
Keys(names) ==
    IF names = {} THEN <<>>
    ELSE LET n == CHOOSE n \in names : TRUE IN << n >> \o Keys(names \ {n})
Listed(map) == Keys(DOMAIN map)
list_models(llm, embedding, multimodal, image) ==
    << Listed(llm), Listed(embedding), Listed(multimodal), Listed(image) >>

\* ===================================================================== state
\* CoreEngine::new (mod.rs:49-132) in the build and environment pv.
EngineNew(pv) ==
    /\ provider = pv
    /\ llm_runtimes = NewLlmRuntimes(pv)
    /\ multimodal_runtimes = NewMultimodalRuntimes(pv)
    /\ embedding_runtimes = NewEmbeddingRuntimes(pv)
    /\ image_runtimes = NewImageRuntimes
    /\ \E env \in EngineWorkersEnv, par \in AvailableParallelism :
          /\ workers = Workers(env, par)
          /\ semaphore = Workers(env, par)
    /\ receiver_dropped = FALSE
    /\ rwlock = [l \in RegistryNames |-> NewRwLock]
    /\ tasks = [t \in Tasks |-> NoTask]
    /\ rate_limiter = << >>
    /\ now = 0
    /\ headers = [r \in Slots |-> NoHeaders]
    /\ request_queue = <<>>
    /\ response_cache = << >>
    /\ req = [r \in Slots |-> NoRequest]
    /\ hpc = [r \in Slots |-> "idle"]
    /\ wpc = [r \in Slots |-> "none"]
    /\ exec = [r \in Slots |-> NoExec]
    /\ response_rx = [r \in Slots |-> NewChannel]
    /\ stream_rx = [r \in Slots |-> NewChannel]
    /\ http = [r \in Slots |-> NoHttp]
    /\ counters = [r \in Slots |-> NoCounters]
\* The default build, no provider seed set.
EngineInit == EngineNew(DefaultProvider)
\* API_KEYS is not set: the gate lets every request pass.
Init == EngineInit /\ api_keys_env = None
\* The same with one worker permit (ENGINE_WORKERS=1).
InitSingle == Init /\ workers = 1
\* API_KEYS has any of the values tried.
InitGate == EngineInit /\ api_keys_env \in ApiKeysEnvValues
\* Any build and any provider seed variables, with one worker permit.
InitSeeded ==
    /\ \E pv \in ProviderConfigs : EngineNew(pv)
    /\ workers = 1
    /\ api_keys_env = None

IsStream(q) == q.kind = "chat" /\ q.stream
\* Mutant of IsBufferedChat: the cache is consulted for every chat request.
IsAnyChat(q) == q.kind = "chat"
\* stream_sender.is_none(), mod.rs:362.
IsBufferedChat(q) == q.kind = "chat" /\ ~q.stream

\* Cache: moka get / insert; an insert overwrites.
CacheGet(cache, key) == IF key \in DOMAIN cache THEN Some(cache[key]) ELSE None
\* Mutant of CacheInsert: an entry that is absent is not created.
CacheInsertExisting(cache, key, value) ==
    [k \in DOMAIN cache |-> IF k = key THEN value ELSE cache[k]]
CacheInsert(cache, key, value) ==
    [k \in DOMAIN cache \cup {key} |-> IF k = key THEN value ELSE cache[k]]
CacheRemove(cache, key) == [k \in DOMAIN cache \ {key} |-> cache[k]]

\* What a handler answers when the gate refuses:
\* authorize_request(&headers).map_err(AppError::BadRequest)? (routes.rs:28,
\* 53, 65, 86, 96, 107).
GateRefusal(verdict) == AppErrorResponse("BadRequest", verdict.result.err)
\* Mutant of Submit: a buffered chat looks the cache up before the gate runs
\* and a hit is answered whatever the gate would say.
SubmitCacheFirst(r, q, h) ==
    /\ hpc[r] = "idle"
    /\ \A s \in Slots : s < r => hpc[s] # "idle"
    /\ req' = [req EXCEPT ![r] = q]
    /\ headers' = [headers EXCEPT ![r] = [authorization |-> h, at |-> now]]
    /\ LET verdict == authorize_request(h, api_keys_env, rate_limiter)
           hit == IF IsBufferedChat(q)
                  THEN CacheGet(response_cache, hash_chat_request(q)) ELSE None
       IN  /\ rate_limiter' = IF hit.some THEN rate_limiter ELSE verdict.limiter
           /\ IF hit.some
              THEN /\ hpc' = [hpc EXCEPT ![r] = "done"]
                   /\ http' = [http EXCEPT ![r] = ChatHttp(Ok(hit.v))]
              ELSE IF verdict.result.ok
              THEN /\ hpc' = [hpc EXCEPT ![r] = IF IsBufferedChat(q) THEN "cache_get" ELSE "send"]
                   /\ UNCHANGED http
              ELSE /\ hpc' = [hpc EXCEPT ![r] = "done"]
                   /\ http' = [http EXCEPT ![r] = GateRefusal(verdict)]
    /\ UNCHANGED << registries, workers, provider, receiver_dropped, rwlock, tasks, api_keys_env, now, semaphore,
                    request_queue, response_cache,
                    wpc, exec, response_rx, stream_rx, counters >>

\* A request with authorization header h arrives; the lowest free slot takes
\* it.  chat_completions / embeddings / images_generations up to the first
\* await of the engine call: the gate runs, and a request it refuses is
\* answered at once.
Submit(r, q, h) ==
    /\ hpc[r] = "idle"
    /\ \A s \in Slots : s < r => hpc[s] # "idle"
    /\ req' = [req EXCEPT ![r] = q]
    /\ headers' = [headers EXCEPT ![r] = [authorization |-> h, at |-> now]]
    /\ LET verdict == authorize_request(h, api_keys_env, rate_limiter)
       IN  /\ rate_limiter' = verdict.limiter
           /\ IF verdict.result.ok
              THEN /\ hpc' = [hpc EXCEPT ![r] = IF IsBufferedChat(q) THEN "cache_get" ELSE "send"]
                   /\ UNCHANGED http
              ELSE /\ hpc' = [hpc EXCEPT ![r] = "done"]
                   /\ http' = [http EXCEPT ![r] = GateRefusal(verdict)]
    /\ UNCHANGED << registries, workers, provider, receiver_dropped, rwlock, tasks, api_keys_env, now, semaphore,
                    request_queue, response_cache,
                    wpc, exec, response_rx, stream_rx, counters >>

\* The registries the admin operations may write.
Regs == [llm |-> llm_runtimes, embedding |-> embedding_runtimes,
         multimodal |-> multimodal_runtimes]
\* admin_models_load / admin_models_unload (routes.rs:91-111): the gate, then
\* load_model / unload_model (mod.rs:467-531); an error of either is a
\* BadRequest.
AdminResult(q) ==
    IF q.kind = "admin_load"
    THEN load_model(Regs, provider, q.model_kind, q.model, q.path)
    ELSE unload_model(Regs, q.model_kind, q.model)
Admin(r, q, h) ==
    /\ hpc[r] = "idle"
    /\ \A s \in Slots : s < r => hpc[s] # "idle"
    /\ q.kind \in {"admin_load", "admin_unload"}
    /\ req' = [req EXCEPT ![r] = q]
    /\ headers' = [headers EXCEPT ![r] = [authorization |-> h, at |-> now]]
    /\ hpc' = [hpc EXCEPT ![r] = "done"]
    /\ LET verdict == authorize_request(h, api_keys_env, rate_limiter)
           outcome == AdminResult(q)
       IN  /\ rate_limiter' = verdict.limiter
           /\ IF verdict.result.ok
              THEN /\ llm_runtimes' = outcome.llm
                   /\ embedding_runtimes' = outcome.embedding
                   /\ multimodal_runtimes' = outcome.multimodal
                   /\ http' = [http EXCEPT ![r] =
                                 IF outcome.result.ok THEN JsonResponse([status |-> "ok"])
                                 ELSE AppErrorResponse("BadRequest", outcome.result.err)]
              ELSE /\ UNCHANGED << llm_runtimes, embedding_runtimes, multimodal_runtimes >>
                   /\ http' = [http EXCEPT ![r] = GateRefusal(verdict)]
    /\ UNCHANGED << image_runtimes, workers, provider, receiver_dropped, rwlock, tasks, api_keys_env, now, semaphore,
                    request_queue, response_cache,
                    wpc, exec, response_rx, stream_rx, counters >>

\* Time passes: one replenish interval of the limiter.
Tick ==
    /\ now < MaxTime
    /\ now' = now + 1
    /\ UNCHANGED << registries, workers, provider, receiver_dropped, rwlock, tasks, api_keys_env, rate_limiter, headers,
                    semaphore, request_queue, response_cache,
                    req, hpc, wpc, exec, response_rx, stream_rx, http, counters >>


\* Mutant of ProcessChatCacheGet: the queue slot is reserved before the cache
\* is looked at.
ProcessChatCacheGetAfterReserve(r) ==
    /\ hpc[r] = "cache_get"
    /\ Len(request_queue) < QueueCap
    /\ LET hit == CacheGet(response_cache, hash_chat_request(req[r]))
       IN  IF hit.some
           THEN /\ counters' = [counters EXCEPT ![r].cache_hit_total = @ + 1]
                /\ http' = [http EXCEPT ![r] = ChatHttp(Ok(hit.v))]
                /\ hpc' = [hpc EXCEPT ![r] = "done"]
           ELSE /\ counters' = [counters EXCEPT ![r].cache_miss_total = @ + 1]
                /\ hpc' = [hpc EXCEPT ![r] = "send"]
                /\ UNCHANGED http
    /\ UNCHANGED << registries, workers, provider, receiver_dropped, rwlock, tasks, gate_state, semaphore, request_queue, response_cache,
                    req, headers, wpc, exec, response_rx, stream_rx >>

\* Mutant of ProcessChatCacheGet: single flight, the lookup waits while an
\* identical request that missed is on its way.
ProcessChatCacheGetSingleFlight(r) ==
    /\ hpc[r] = "cache_get"
    /\ \A o \in Slots \ {r} :
          ~(hpc[o] \in {"send", "recv"} /\ req[o] = req[r])
    /\ LET hit == CacheGet(response_cache, hash_chat_request(req[r]))
       IN  IF hit.some
           THEN /\ counters' = [counters EXCEPT ![r].cache_hit_total = @ + 1]
                /\ http' = [http EXCEPT ![r] = ChatHttp(Ok(hit.v))]
                /\ hpc' = [hpc EXCEPT ![r] = "done"]
           ELSE /\ counters' = [counters EXCEPT ![r].cache_miss_total = @ + 1]
                /\ hpc' = [hpc EXCEPT ![r] = "send"]
                /\ UNCHANGED http
    /\ UNCHANGED << registries, workers, provider, receiver_dropped, rwlock, tasks, gate_state, semaphore, request_queue, response_cache,
                    req, headers, wpc, exec, response_rx, stream_rx >>
\* process_chat_request, mod.rs:362-374: the cache lookup of a buffered chat.
ProcessChatCacheGet(r) ==
    /\ hpc[r] = "cache_get"
    /\ LET hit == CacheGet(response_cache, hash_chat_request(req[r]))
       IN  IF hit.some
           THEN /\ counters' = [counters EXCEPT ![r].cache_hit_total = @ + 1]
                /\ http' = [http EXCEPT ![r] = ChatHttp(Ok(hit.v))]
                /\ hpc' = [hpc EXCEPT ![r] = "done"]
           ELSE /\ counters' = [counters EXCEPT ![r].cache_miss_total = @ + 1]
                /\ hpc' = [hpc EXCEPT ![r] = "send"]
                /\ UNCHANGED http
    /\ UNCHANGED << registries, workers, provider, receiver_dropped, rwlock, tasks, gate_state, semaphore, request_queue, response_cache,
                    req, headers, wpc, exec, response_rx, stream_rx >>

\* What the handler makes of the reply (routes.rs:43-44, 54-57, 66-79).
HttpOf(q, result, created) ==
    CASE q.kind = "chat" -> ChatHttp(result)
      [] q.kind = "embeddings" -> EmbeddingsHttp(result)
      [] q.kind = "images" -> ImagesHttp(result, created)

\* The error of a push on a queue whose receiver is gone (mod.rs:384, 434,
\* 450): SendError displays as "channel closed".
SendErrorMessage == "Failed to send request to engine: channel closed"
\* request_sender.send(..).await returns Err: the process_* call returns the
\* error with `?` and the handler maps it; chat_completions discards the
\* result of a streaming call (routes.rs:34) and opens the event stream,
\* whose senders are all dropped by then.
SendFailed(r) ==
    /\ IF IsStream(req[r])
       THEN /\ stream_rx' = [stream_rx EXCEPT ![r].tx_dropped = TRUE]
            /\ hpc' = [hpc EXCEPT ![r] = "sse"]
            /\ UNCHANGED http
       ELSE /\ http' = [http EXCEPT ![r] = HttpOf(req[r], Err(SendErrorMessage), 0)]
            /\ hpc' = [hpc EXCEPT ![r] = "done"]
            /\ UNCHANGED stream_rx
    /\ UNCHANGED << registries, workers, provider, receiver_dropped, rwlock, tasks, gate_state, semaphore, request_queue,
                    response_cache, req, headers, wpc, exec, response_rx, counters >>

\* Mutant of Enqueue: the envelope is pushed without waiting for a free slot.
EnqueueUnbounded(r) ==
    /\ hpc[r] = "send"
    /\ IF receiver_dropped
       THEN SendFailed(r)
       ELSE /\ request_queue' = Append(request_queue, r)
            /\ wpc' = [wpc EXCEPT ![r] = "queued"]
            /\ hpc' = [hpc EXCEPT ![r] = IF IsStream(req[r]) THEN "sse" ELSE "recv"]
            /\ UNCHANGED << registries, workers, provider, receiver_dropped, rwlock, tasks, gate_state, semaphore, response_cache,
                            req, headers, exec, response_rx, stream_rx, http, counters >>

\* request_sender.send(..).await (mod.rs:377-384, 431-434, 447-450): waits for
\* a free slot of the queue.  A streaming handler then returns at once
\* (mod.rs:399) and chat_completions opens the event stream (routes.rs:36-40).
Enqueue(r) ==
    /\ hpc[r] = "send"
    /\ IF receiver_dropped
       THEN SendFailed(r)
       ELSE /\ Len(request_queue) < QueueCap
            /\ request_queue' = Append(request_queue, r)
            /\ wpc' = [wpc EXCEPT ![r] = "queued"]
            /\ hpc' = [hpc EXCEPT ![r] = IF IsStream(req[r]) THEN "sse" ELSE "recv"]
            /\ UNCHANGED << registries, workers, provider, receiver_dropped, rwlock, tasks, gate_state, semaphore, response_cache,
                            req, headers, exec, response_rx, stream_rx, http, counters >>

\* response_receiver.recv().await and what follows (mod.rs:386-395, 436-439,
\* 452-455): the reply, or "channel closed" when the sender went away without
\* one; a successful buffered chat reply is stored in the cache.
Receive(r) ==
    /\ hpc[r] = "recv"
    /\ response_rx[r].items # <<>> \/ response_rx[r].tx_dropped
    /\ LET result == IF response_rx[r].items # <<>>
                     THEN Head(response_rx[r].items)
                     ELSE Err("Engine response channel closed")
           store == req[r].kind = "chat" /\ result.ok
       IN  /\ response_cache' =
                IF store
                THEN CacheInsert(response_cache, hash_chat_request(req[r]), result.val)
                ELSE response_cache
           /\ counters' = IF store
                          THEN [counters EXCEPT ![r].cache_store_total = @ + 1]
                          ELSE counters
           /\ \E st \in Stamps : http' = [http EXCEPT ![r] = HttpOf(req[r], result, st.created)]
    /\ hpc' = [hpc EXCEPT ![r] = "done"]
    /\ UNCHANGED << registries, workers, provider, receiver_dropped, rwlock, tasks, gate_state, semaphore, request_queue,
                    req, headers, wpc, exec, response_rx, stream_rx >>

\* The event stream ends when every sender of the emitter is dropped; the
\* client has then read all that was written (routes.rs:36-40).
StreamEnd(r) ==
    /\ hpc[r] = "sse"
    /\ stream_rx[r].tx_dropped
    /\ http' = [http EXCEPT ![r] = SseResponse(stream_rx[r].items)]
    /\ hpc' = [hpc EXCEPT ![r] = "done"]
    /\ UNCHANGED << registries, workers, provider, receiver_dropped, rwlock, tasks, gate_state, semaphore, request_queue, response_cache,
                    req, headers, wpc, exec, response_rx, stream_rx, counters >>

\* The client goes away: the handler future, or the open event stream, is
\* dropped and with it the receiving end of its channel.
ClientDisconnect(r) ==
    /\ hpc[r] \in {"send", "recv", "sse"}
    /\ hpc' = [hpc EXCEPT ![r] = "gone"]
    /\ response_rx' = [response_rx EXCEPT ![r].rx_closed = TRUE]
    /\ stream_rx' = [stream_rx EXCEPT ![r].rx_closed = TRUE]
    /\ UNCHANGED << registries, workers, provider, receiver_dropped, rwlock, tasks, gate_state, semaphore, request_queue, response_cache,
                    req, headers, wpc, exec, http, counters >>

\* Both the handler and the execution of a slot have ended: the slot is free.
Ended(r) == hpc[r] \in {"done", "gone"} /\ wpc[r] \in {"none", "finished"}
Recycle(r) ==
    /\ Ended(r)
    /\ req' = [req EXCEPT ![r] = NoRequest]
    /\ headers' = [headers EXCEPT ![r] = NoHeaders]
    /\ hpc' = [hpc EXCEPT ![r] = "idle"]
    /\ wpc' = [wpc EXCEPT ![r] = "none"]
    /\ exec' = [exec EXCEPT ![r] = NoExec]
    /\ response_rx' = [response_rx EXCEPT ![r] = NewChannel]
    /\ stream_rx' = [stream_rx EXCEPT ![r] = NewChannel]
    /\ http' = [http EXCEPT ![r] = NoHttp]
    /\ counters' = [counters EXCEPT ![r] = NoCounters]
    /\ UNCHANGED << registries, workers, provider, receiver_dropped, rwlock, tasks, gate_state, semaphore, request_queue, response_cache >>

\* Mutant of Dequeue: the supervisor takes the envelope pushed last.
DequeueLast ==
    /\ request_queue # <<>>
    /\ wpc' = [wpc EXCEPT ![request_queue[Len(request_queue)]] = "spawned"]
    /\ request_queue' = SubSeq(request_queue, 1, Len(request_queue) - 1)
    /\ UNCHANGED << registries, workers, provider, receiver_dropped, rwlock, tasks, gate_state, semaphore, response_cache,
                    req, headers, hpc, exec, response_rx, stream_rx, http, counters >>

\* =============================================================== worker pool
\* The supervisor, mod.rs:142-149: takes the envelope at the head of the
\* queue and spawns a detached execution for it.
Dequeue ==
    /\ request_queue # <<>>
    /\ wpc' = [wpc EXCEPT ![Head(request_queue)] = "spawned"]
    /\ request_queue' = Tail(request_queue)
    /\ UNCHANGED << registries, workers, provider, receiver_dropped, rwlock, tasks, gate_state, semaphore, response_cache,
                    req, headers, hpc, exec, response_rx, stream_rx, http, counters >>

\* Mutant of AcquirePermit: the execution goes on without waiting for a permit.
AcquirePermitNoWait(r) ==
    /\ wpc[r] = "spawned"
    /\ semaphore' = semaphore - 1
    /\ exec' = [exec EXCEPT ![r].permit = TRUE]
    /\ wpc' = [wpc EXCEPT ![r] = "lookup"]
    /\ UNCHANGED << registries, workers, provider, receiver_dropped, rwlock, tasks, gate_state, request_queue, response_cache,
                    req, headers, hpc, response_rx, stream_rx, http, counters >>

\* semaphore_clone.acquire_owned().await, mod.rs:150.
AcquirePermit(r) ==
    /\ wpc[r] = "spawned"
    /\ semaphore > 0
    /\ semaphore' = semaphore - 1
    /\ exec' = [exec EXCEPT ![r].permit = TRUE]
    /\ wpc' = [wpc EXCEPT ![r] = "lookup"]
    /\ UNCHANGED << registries, workers, provider, receiver_dropped, rwlock, tasks, gate_state, request_queue, response_cache,
                    req, headers, hpc, response_rx, stream_rx, http, counters >>

\* The call a routed request starts, or the text that replaces it.
StartCall(e, route, direct) ==
    IF route.call # "none"
    THEN [e EXCEPT !.call = route.call]
    ELSE [e EXCEPT !.result = Some(direct)]

\* Chat, mod.rs:154-177 and, buffered, 246-262: both registries are read under
\* their read locks; a buffered request then goes straight into its backend
\* call (there is no await in between).
ChatLookup(r) ==
    /\ wpc[r] = "lookup"
    /\ req[r].kind = "chat"
    /\ LET llm_opt == req[r].model \in DOMAIN llm_runtimes
           mm_opt == req[r].model \in DOMAIN multimodal_runtimes
           pi == PromptAndImages(req[r].messages)
           e == [exec[r] EXCEPT !.llm_opt = llm_opt, !.mm_opt = mm_opt,
                                !.found = llm_opt \/ mm_opt,
                                !.prompt = pi.prompt, !.image_urls = pi.image_urls]
           route == BufferedRoute(pi.image_urls, llm_opt, mm_opt)
       IN  IF llm_opt \/ mm_opt
           THEN IF req[r].stream
                THEN /\ exec' = [exec EXCEPT ![r] = e]
                     /\ wpc' = [wpc EXCEPT ![r] = "s_role"]
                ELSE /\ exec' = [exec EXCEPT ![r] =
                                   StartCall(e, route, Ok(IF route.direct.some THEN route.direct.v ELSE ""))]
                     /\ wpc' = [wpc EXCEPT ![r] = IF route.call # "none" THEN "backend" ELSE "reply"]
           ELSE /\ exec' = [exec EXCEPT ![r] = e]
                /\ wpc' = [wpc EXCEPT ![r] = IF req[r].stream THEN "release" ELSE "reply"]
    /\ UNCHANGED << registries, workers, provider, receiver_dropped, rwlock, tasks, gate_state, semaphore, request_queue, response_cache,
                    req, headers, hpc, response_rx, stream_rx, http, counters >>

\* Embeddings, mod.rs:292-300, and images, mod.rs:329-339: the registry is
\* read and, on a hit, the backend is called.
RuntimeLookup(r) ==
    /\ wpc[r] = "lookup"
    /\ req[r].kind \in {"embeddings", "images"}
    /\ LET found == IF req[r].kind = "embeddings"
                    THEN req[r].model \in DOMAIN embedding_runtimes
                    ELSE req[r].model \in DOMAIN image_runtimes
           call == IF req[r].kind = "embeddings" THEN "embed" ELSE "generate_images"
       IN  /\ exec' = [exec EXCEPT ![r].found = found,
                                   ![r].call = IF found THEN call ELSE "none"]
           /\ wpc' = [wpc EXCEPT ![r] = IF found THEN "backend" ELSE "reply"]
    /\ UNCHANGED << registries, workers, provider, receiver_dropped, rwlock, tasks, gate_state, semaphore, request_queue, response_cache,
                    req, headers, hpc, response_rx, stream_rx, http, counters >>

\* Streaming, mod.rs:180-213: the id and the creation time are taken, the role
\* chunk is sent, then the backend is called (or the routing error stands
\* for its result).
StreamSendRole(r) ==
    /\ wpc[r] = "s_role"
    /\ ChanCanSend(stream_rx[r], StreamBuffer)
    /\ \E st \in Stamps :
         LET e == [exec[r] EXCEPT !.id = st.id, !.created = st.created]
             route == StreamRoute(e.image_urls, e.llm_opt, e.mm_opt)
         IN  /\ stream_rx' = [stream_rx EXCEPT ![r] =
                                ChanSend(@, RoleChunk(e.id, e.created, req[r].model))]
             /\ exec' = [exec EXCEPT ![r] =
                           StartCall(e, route, IF route.direct.some THEN route.direct.v ELSE Err(""))]
             /\ wpc' = [wpc EXCEPT ![r] = IF route.call # "none" THEN "backend" ELSE "s_content"]
    /\ UNCHANGED << registries, workers, provider, receiver_dropped, rwlock, tasks, gate_state, semaphore, request_queue, response_cache,
                    req, headers, hpc, response_rx, http, counters >>

\* The backend call returns: the dummy's output, or an error.
BackendReturn(r) ==
    /\ wpc[r] = "backend"
    /\ \E res \in { Ok(BackendOk(exec[r].call, req[r], exec[r].prompt, exec[r].image_urls,
                                 IF req[r].kind = "chat"
                                 THEN GenerationOptions_from_request(
                                          req[r].max_tokens, req[r].temperature, req[r].top_p)
                                 ELSE None)) }
                 \cup { Err(m) : m \in BackendErrors } :
         exec' = [exec EXCEPT ![r].result = Some(res)]
    /\ wpc' = [wpc EXCEPT ![r] = IF IsStream(req[r]) THEN "s_content" ELSE "reply"]
    /\ UNCHANGED << registries, workers, provider, receiver_dropped, rwlock, tasks, gate_state, semaphore, request_queue, response_cache,
                    req, headers, hpc, response_rx, stream_rx, http, counters >>

\* mod.rs:214-225.
StreamSendContent(r) ==
    /\ wpc[r] = "s_content"
    /\ ChanCanSend(stream_rx[r], StreamBuffer)
    /\ stream_rx' = [stream_rx EXCEPT ![r] =
                       ChanSend(@, ContentChunk(exec[r].id, exec[r].created, req[r].model,
                                                StreamGenerated(exec[r].result.v)))]
    /\ wpc' = [wpc EXCEPT ![r] = "s_done"]
    /\ UNCHANGED << registries, workers, provider, receiver_dropped, rwlock, tasks, gate_state, semaphore, request_queue, response_cache,
                    req, headers, hpc, exec, response_rx, http, counters >>

\* mod.rs:227-238.
StreamSendDone(r) ==
    /\ wpc[r] = "s_done"
    /\ ChanCanSend(stream_rx[r], StreamBuffer)
    /\ stream_rx' = [stream_rx EXCEPT ![r] =
                       ChanSend(@, DoneChunk(exec[r].id, exec[r].created, req[r].model))]
    /\ wpc' = [wpc EXCEPT ![r] = "s_sentinel"]
    /\ UNCHANGED << registries, workers, provider, receiver_dropped, rwlock, tasks, gate_state, semaphore, request_queue, response_cache,
                    req, headers, hpc, exec, response_rx, http, counters >>

\* mod.rs:240.
StreamSendSentinel(r) ==
    /\ wpc[r] = "s_sentinel"
    /\ ChanCanSend(stream_rx[r], StreamBuffer)
    /\ stream_rx' = [stream_rx EXCEPT ![r] = ChanSend(@, DoneSentinel)]
    /\ wpc' = [wpc EXCEPT ![r] = "release"]
    /\ UNCHANGED << registries, workers, provider, receiver_dropped, rwlock, tasks, gate_state, semaphore, request_queue, response_cache,
                    req, headers, hpc, exec, response_rx, http, counters >>

\* The one message a buffered execution writes on its reply channel
\* (mod.rs:263-279, 287, 301-325, 340-347).
ReplyMessage(q, e, st) ==
    IF ~e.found THEN Err(NotFoundMessage(q.model))
    ELSE CASE q.kind = "chat" ->
                Ok(ChatCompletionResponse(st.id, st.created, q.model,
                                          BufferedGenerated(e.result.v)))
           [] q.kind = "embeddings" ->
                IF e.result.v.ok THEN Ok(EmbeddingsResponse(q.model, e.result.v.val))
                ELSE Err(e.result.v.err)
           [] q.kind = "images" -> e.result.v

\* Mutant of Reply: the reply is written again after the first write.
ReplyTwice(r) ==
    /\ wpc[r] = "reply"
    /\ \E st \in Stamps :
         response_rx' = [response_rx EXCEPT ![r] =
                           ChanSend(ChanSend(@, ReplyMessage(req[r], exec[r], st)),
                                    ReplyMessage(req[r], exec[r], st))]
    /\ wpc' = [wpc EXCEPT ![r] = "release"]
    /\ UNCHANGED << registries, workers, provider, receiver_dropped, rwlock, tasks, gate_state, semaphore, request_queue, response_cache,
                    req, headers, hpc, exec, stream_rx, http, counters >>

Reply(r) ==
    /\ wpc[r] = "reply"
    /\ \E st \in Stamps :
         response_rx' = [response_rx EXCEPT ![r] = ChanSend(@, ReplyMessage(req[r], exec[r], st))]
    /\ wpc' = [wpc EXCEPT ![r] = "release"]
    /\ UNCHANGED << registries, workers, provider, receiver_dropped, rwlock, tasks, gate_state, semaphore, request_queue, response_cache,
                    req, headers, hpc, exec, stream_rx, http, counters >>

\* Mutant of Release: an execution whose client went away returns early and
\* keeps its permit.
ReleaseUnlessClosed(r) ==
    /\ wpc[r] = "release"
    /\ LET closed == response_rx[r].rx_closed \/ stream_rx[r].rx_closed
       IN  /\ semaphore' = IF closed THEN semaphore ELSE semaphore + 1
           /\ exec' = [exec EXCEPT ![r].permit = closed]
    /\ response_rx' = [response_rx EXCEPT ![r].tx_dropped = TRUE]
    /\ stream_rx' = [stream_rx EXCEPT ![r].tx_dropped = TRUE]
    /\ wpc' = [wpc EXCEPT ![r] = "finished"]
    /\ UNCHANGED << registries, workers, provider, receiver_dropped, rwlock, tasks, gate_state, request_queue, response_cache,
                    req, headers, hpc, http, counters >>

\* Mutant of Release: the permit is returned but the senders the envelope
\* carried stay alive.
ReleaseKeepsSenders(r) ==
    /\ wpc[r] = "release"
    /\ semaphore' = semaphore + 1
    /\ exec' = [exec EXCEPT ![r].permit = FALSE]
    /\ wpc' = [wpc EXCEPT ![r] = "finished"]
    /\ UNCHANGED << registries, workers, provider, receiver_dropped, rwlock, tasks, gate_state, request_queue, response_cache,
                    req, headers, hpc, response_rx, stream_rx, http, counters >>

\* The end of the spawned block, mod.rs:350-352: the permit and the senders
\* the envelope carried are dropped.
Release(r) ==
    /\ wpc[r] = "release"
    /\ semaphore' = semaphore + 1
    /\ exec' = [exec EXCEPT ![r].permit = FALSE]
    /\ response_rx' = [response_rx EXCEPT ![r].tx_dropped = TRUE]
    /\ stream_rx' = [stream_rx EXCEPT ![r].tx_dropped = TRUE]
    /\ wpc' = [wpc EXCEPT ![r] = "finished"]
    /\ UNCHANGED << registries, workers, provider, receiver_dropped, rwlock, tasks, gate_state, request_queue, response_cache,
                    req, headers, hpc, http, counters >>

\* ===================================================================== admin
\* load_model with no path (mod.rs:467-522), called on the engine.
LoadModel(kind, name) ==
    /\ kind \in {"llm", "embedding", "multimodal"}
    /\ LET outcome == load_model(Regs, provider, kind, name, None)
       IN  /\ llm_runtimes' = outcome.llm
           /\ embedding_runtimes' = outcome.embedding
           /\ multimodal_runtimes' = outcome.multimodal
    /\ UNCHANGED << image_runtimes, workers, provider, receiver_dropped, rwlock, tasks, gate_state, semaphore, request_queue, response_cache,
                    req, headers, hpc, wpc, exec, response_rx, stream_rx, http, counters >>

\* unload_model (mod.rs:524-531), called on the engine.
UnloadModel(kind, name) ==
    /\ kind \in {"llm", "embedding", "multimodal"}
    /\ LET outcome == unload_model(Regs, kind, name)
       IN  /\ llm_runtimes' = outcome.llm
           /\ embedding_runtimes' = outcome.embedding
           /\ multimodal_runtimes' = outcome.multimodal
    /\ UNCHANGED << image_runtimes, workers, provider, receiver_dropped, rwlock, tasks, gate_state, semaphore, request_queue, response_cache,
                    req, headers, hpc, wpc, exec, response_rx, stream_rx, http, counters >>

\* An entry of the cache reaches its time-to-live of 60 s, or is evicted
\* (mod.rs:127-130).
CacheExpire(key) ==
    /\ key \in DOMAIN response_cache
    /\ response_cache' = CacheRemove(response_cache, key)
    /\ UNCHANGED << registries, workers, provider, receiver_dropped, rwlock, tasks, gate_state, semaphore, request_queue,
                    req, headers, hpc, wpc, exec, response_rx, stream_rx, http, counters >>

CacheKeys == { hash_chat_request(q) : q \in ChatRequests }

\* The runtime the engine was built on (tokio::spawn, mod.rs:119, 149) shuts
\* down while handlers on another runtime go on: the supervisor and every
\* execution are dropped where they stand, and with them the receiver of the
\* queue, the envelopes in it, the permits held and the senders towards the
\* handlers.
Dropped(r) == wpc[r] \notin {"none", "finished"}
RuntimeShutdown ==
    /\ ~receiver_dropped
    /\ receiver_dropped' = TRUE
    /\ request_queue' = <<>>
    /\ semaphore' = workers
    /\ exec' = [r \in Slots |-> [exec[r] EXCEPT !.permit = FALSE]]
    /\ wpc' = [r \in Slots |-> IF Dropped(r) THEN "finished" ELSE wpc[r]]
    /\ response_rx' = [r \in Slots |->
                         IF Dropped(r) THEN [response_rx[r] EXCEPT !.tx_dropped = TRUE]
                         ELSE response_rx[r]]
    /\ stream_rx' = [r \in Slots |->
                       IF Dropped(r) THEN [stream_rx[r] EXCEPT !.tx_dropped = TRUE]
                       ELSE stream_rx[r]]
    /\ UNCHANGED << registries, workers, provider, rwlock, tasks, gate_state, response_cache, req, headers, hpc, http, counters >>

\* The steps every request kind and mode takes, for the slots S and the
\* requests Q.
CommonStep(S, Q) ==
    \/ \E r \in S, q \in Q : Submit(r, q, None)
    \/ \E r \in S : ProcessChatCacheGet(r)
    \/ \E r \in S : Enqueue(r)
    \/ \E r \in S : Receive(r)
    \/ \E r \in S : ClientDisconnect(r)
    \/ Dequeue
    \/ \E r \in S : AcquirePermit(r)
    \/ \E r \in S : ChatLookup(r)
    \/ \E r \in S : BackendReturn(r)
    \/ \E r \in S : Reply(r)
    \/ \E r \in S : Release(r)

\* The steps of a streaming chat alone.
StreamStep(S) ==
    \/ \E r \in S : StreamSendRole(r)
    \/ \E r \in S : StreamSendContent(r)
    \/ \E r \in S : StreamSendDone(r)
    \/ \E r \in S : StreamSendSentinel(r)
    \/ \E r \in S : StreamEnd(r)

RequestStep(S, Q) ==
    \/ CommonStep(S, Q)
    \/ StreamStep(S)
    \/ \E r \in S : RuntimeLookup(r)

\* A step of the environment of the requests: the admin operations and the
\* expiry of cache entries.
EnvironmentStep ==
    \/ \E k \in AdminKinds, n \in AdminNames : LoadModel(k, n)
    \/ \E k \in AdminKinds, n \in AdminNames : UnloadModel(k, n)
    \/ \E key \in CacheKeys : CacheExpire(key)

\* A slot whose request has ended is freed before the program goes on: what
\* an ended request leaves in its slot is read by no step of the program.
NoneEnded == \A r \in Slots : ~Ended(r)

\* One request at a time, of every shape, with the admin operations and the
\* cache expiry interleaved.
Next ==
    \/ \E r \in Slots : Recycle(r)
    \/ NoneEnded /\ RequestStep({1}, Requests)
    \/ NoneEnded /\ EnvironmentStep

Spec == Init /\ [][Next]_vars

\* Up to MaxReq requests of every kind in flight, competing for the queue and
\* the permits.
PoolSlots == 1..MaxReq
PoolRequests ==
    { ChatCompletionRequest(m, TextMessages, s) :
        m \in {"dummy-model", "custom-model"}, s \in BOOLEAN }
    \cup EmbeddingsRequests
    \cup ImagesRequests
NextPool ==
    \/ \E r \in Slots : Recycle(r)
    \/ NoneEnded /\ RequestStep(PoolSlots, PoolRequests)

SpecPool == Init /\ [][NextPool]_vars

\* A burst of identical buffered chat requests: enough of them in flight to
\* hold every permit, fill the queue, and have one more arrive.
BurstSlots == 1..(MaxW + QueueCap + 1)
BurstRequests == { ChatCompletionRequest("dummy-model", TextMessages, FALSE) }
NextBurst ==
    \/ \E r \in Slots : Recycle(r)
    \/ NoneEnded /\ CommonStep(BurstSlots, BurstRequests)

SpecBurst == Init /\ [][NextBurst]_vars

\* One request at a time of every kind, and the runtime of the engine may
\* shut down.
NextShutdown ==
    \/ \E r \in Slots : Recycle(r)
    \/ NoneEnded /\ RequestStep({1}, Requests)
    \/ NoneEnded /\ RuntimeShutdown
SpecShutdown == Init /\ [][NextShutdown]_vars

\* One request at a time through the gate and the engine: requests of every
\* gated route arrive without a header, with an accepted token or with an
\* unknown one, under every value of API_KEYS.
GateHeaders == { None, Some(BearerPrefix \o <<"a">>), Some(BearerPrefix \o <<"z">>) }
GateRequests ==
    { ChatCompletionRequest("dummy-model", TextMessages, s) : s \in BOOLEAN }
    \cup { EmbeddingsRequest("dummy-embedding", <<"hello">>) }
    \cup { ImagesGenerationRequest("dummy-image", "a cute cat", 2, "256x256") }
GateAdminRequests ==
    { AdminRequest(route, "llm", "dummy-model") : route \in {"admin_load", "admin_unload"} }
NextGate ==
    \/ \E r \in Slots : Recycle(r)
    \/ NoneEnded /\ \E q \in GateRequests, h \in GateHeaders : Submit(1, q, h)
    \/ NoneEnded /\ \E q \in GateAdminRequests, h \in GateHeaders : Admin(1, q, h)
    \/ NoneEnded /\ RequestStep({1}, GateRequests)
SpecGate == InitGate /\ [][NextGate]_vars

\* The gate alone, one request at a time: admin requests that change no
\* registry arrive with every header tried, under every value of API_KEYS.
AuthRequests == { AdminRequest("admin_unload", "llm", "custom-model") }
NextAuth ==
    \/ \E r \in Slots : Recycle(r)
    \/ NoneEnded /\ \E q \in AuthRequests, h \in AuthorizationHeaders : Admin(1, q, h)
    \/ NoneEnded /\ Tick
SpecAuth == InitGate /\ [][NextAuth]_vars

\* The limiter: requests that carry one of two accepted tokens arrive while
\* time passes; one more request than the quota can be in the slots at once.
QuotaSlots == 1..(QuotaPerMinute + 1)
QuotaHeaders == { Some(BearerPrefix \o <<"a">>), Some(BearerPrefix \o <<"b">>) }
NextQuota ==
    \/ \E r \in Slots : Recycle(r)
    \/ \E r \in QuotaSlots, q \in AuthRequests, h \in QuotaHeaders : Admin(r, q, h)
    \/ Tick
SpecQuota == InitGate /\ [][NextQuota]_vars

\* The registries: one admin operation at a time, of every kind, name and
\* path, in every build and seed environment.
AdminOpNames == {"custom-model", "dummy-model"}
AdminOpKinds == {"llm", "embedding", "multimodal", "image", "audio"}
AdminOps ==
    { LoadModelRequest(n, k, pth) : n \in AdminOpNames, k \in AdminOpKinds, pth \in LoadPaths }
    \cup { AdminRequest("admin_unload", k, n) : k \in AdminOpKinds, n \in AdminOpNames }
NextAdmin ==
    \/ \E r \in Slots : Recycle(r)
    \/ NoneEnded /\ \E q \in AdminOps : Admin(1, q, None)
SpecAdmin == InitSeeded /\ [][NextAdmin]_vars

\* What the spawned execution of a slot does once it has its permit.
ExecutionStep(r) ==
    \/ ChatLookup(r)
    \/ RuntimeLookup(r)
    \/ StreamSendRole(r)
    \/ BackendReturn(r)
    \/ StreamSendContent(r)
    \/ StreamSendDone(r)
    \/ StreamSendSentinel(r)
    \/ Reply(r)
    \/ Release(r)
\* The runtime polls every task that can go on: the supervisor, the spawned
\* executions (every backend call returns) and the handlers waiting for
\* their reply or for the end of their stream; the semaphore hands its
\* permits out in the order of the acquires, so that no acquire is passed
\* over for ever.
PoolFairness ==
    /\ WF_vars(Dequeue)
    /\ \A r \in PoolSlots :
         /\ SF_vars(AcquirePermit(r))
         /\ WF_vars(ExecutionStep(r))
         /\ WF_vars(Receive(r))
         /\ WF_vars(StreamEnd(r))
         /\ WF_vars(Recycle(r))
\* Chat requests in flight in two slots: buffered, streaming, and streaming
\* for a model that no registry holds.
FairRequests ==
    { ChatCompletionRequest("dummy-model", TextMessages, FALSE),
      ChatCompletionRequest("dummy-model", TextMessages, TRUE),
      ChatCompletionRequest("custom-model", TextMessages, TRUE) }
NextFair ==
    \/ \E r \in Slots : Recycle(r)
    \/ NoneEnded /\ CommonStep(PoolSlots, FairRequests)
    \/ NoneEnded /\ StreamStep(PoolSlots)
SpecPoolFair == InitSingle /\ [][NextFair]_vars /\ PoolFairness

\* Buffered chats one after the other over the cache, whose messages differ
\* in where the text of the last message comes from (a text content, a text
\* part, a text part followed by an image URL) or in an option.
KeyMessages ==
    { TextMessages,
      << ChatCompletionMessage("user", Parts(<< TextPart("hello") >>)) >>,
      VisionMessages,
      << ChatCompletionMessage("user", Text("look at thishttps://example.com/img.jpg")) >> }
KeyRequests ==
    { ChatCompletionRequest("dummy-model", ms, FALSE) : ms \in KeyMessages }
    \cup { [ChatCompletionRequest("dummy-model", TextMessages, FALSE)
              EXCEPT !.max_tokens = Some(5)] }
NextKeys ==
    \/ \E r \in Slots : Recycle(r)
    \/ NoneEnded /\ CommonStep({1}, KeyRequests)
SpecKeys == InitSingle /\ [][NextKeys]_vars

\* One request at a time, of every kind, with loads and unloads of two
\* names interleaved.
FrameNames == {"dummy-model", "custom-model"}
FrameRequests ==
    { ChatCompletionRequest("dummy-model", TextMessages, FALSE),
      EmbeddingsRequest("dummy-embedding", <<"hello", "world">>),
      ImagesGenerationRequest("dummy-image", "a cute cat", 2, "256x256") }
NextFrame ==
    \/ \E r \in Slots : Recycle(r)
    \/ NoneEnded /\ CommonStep({1}, FrameRequests)
    \/ NoneEnded /\ \E r \in {1} : RuntimeLookup(r)
    \/ NoneEnded /\ \E k \in AdminKinds, n \in FrameNames : LoadModel(k, n)
    \/ NoneEnded /\ \E k \in AdminKinds, n \in FrameNames : UnloadModel(k, n)
SpecFrame == InitSingle /\ [][NextFrame]_vars

\* One chat request, buffered or streaming, with any of the message lists.
PromptRequests ==
    { ChatCompletionRequest("dummy-model", ms, st) :
        ms \in PromptMessageLists, st \in BOOLEAN }
NextPrompt ==
    \/ CommonStep({1}, PromptRequests)
    \/ StreamStep({1})
SpecPrompt == InitSingle /\ [][NextPrompt]_vars

\* ------------------------------------------- lock-level view of the registries
\* What a task does with the locks, one instruction per await or guard drop.
ReadGuard(l) == [ins |-> "read", lock |-> l]
WriteGuard(l) == [ins |-> "write", lock |-> l]
DropGuard(l) == [ins |-> "drop", lock |-> l]
GetHandle == [ins |-> "get", lock |-> ""]
Mutate == [ins |-> "mutate", lock |-> ""]
CallBackend == [ins |-> "backend", lock |-> ""]

\* Mutant of ChatLookupProgram: the two read guards live until the backend
\* call has returned.
ChatLookupProgramHoldingGuards ==
    << ReadGuard("llm"), ReadGuard("multimodal"), GetHandle, CallBackend,
       DropGuard("multimodal"), DropGuard("llm") >>
\* The chat lookup, mod.rs:156-160: the llm read guard, then the multimodal
\* read guard while the first is held, both handles cloned, both guards
\* dropped at the end of the block (in reverse order of declaration); then
\* the backend call (mod.rs:197-213, 248-262).
ChatLookupProgram ==
    << ReadGuard("llm"), ReadGuard("multimodal"), GetHandle,
       DropGuard("multimodal"), DropGuard("llm"), CallBackend >>
\* The embeddings lookup, mod.rs:292-300, and the images lookup,
\* mod.rs:329-339.
RuntimeLookupProgram(l) ==
    << ReadGuard(l), GetHandle, DropGuard(l), CallBackend >>
\* list_models, mod.rs:459-465: one registry after the other, each guard a
\* temporary dropped at the end of its statement.
ListModelsProgram ==
    << ReadGuard("llm"), DropGuard("llm"),
       ReadGuard("embedding"), DropGuard("embedding"),
       ReadGuard("multimodal"), DropGuard("multimodal"),
       ReadGuard("image"), DropGuard("image") >>
\* Mutant of WriteProgram: the llm registry is read while the write guard
\* is held.
WriteProgramNested(kind) ==
    IF kind \in {"llm", "embedding", "multimodal"}
    THEN << WriteGuard(kind), ReadGuard("llm"), Mutate, DropGuard("llm"), DropGuard(kind) >>
    ELSE << >>
\* load_model and unload_model, mod.rs:467-531: the write guard of the one
\* registry of the kind, a temporary dropped at the end of the insert or
\* remove statement; an unknown kind takes no lock.
WriteProgram(kind) ==
    IF kind \in {"llm", "embedding", "multimodal"}
    THEN << WriteGuard(kind), Mutate, DropGuard(kind) >>
    ELSE << >>

LockOps ==
    {[op |-> "chat", kind |-> "llm", model |-> "dummy-model"],
     [op |-> "embeddings", kind |-> "embedding", model |-> "dummy-embedding"],
     [op |-> "images", kind |-> "image", model |-> "dummy-image"],
     [op |-> "list", kind |-> "", model |-> ""]}
    \cup { [op |-> o, kind |-> k, model |-> "dummy-model"] :
             o \in {"load", "unload"}, k \in {"llm", "multimodal", "audio"} }
ProgramOf(o) ==
    CASE o.op = "chat" -> ChatLookupProgram
      [] o.op \in {"embeddings", "images"} -> RuntimeLookupProgram(o.kind)
      [] o.op = "list" -> ListModelsProgram
      [] OTHER -> WriteProgram(o.kind)

\* A guard of this mode can be handed out now.
Grantable(lock, mode) ==
    IF mode = "read" THEN lock.writer = {}
    ELSE lock.writer = {} /\ lock.readers = {}
Granted(lock, t, mode) ==
    IF mode = "read" THEN [lock EXCEPT !.readers = @ \cup {t}]
    ELSE [lock EXCEPT !.writer = {t}]
\* The task is done with its first instruction; a task with nothing left has
\* completed its operation.
Advance(tk) ==
    IF Len(tk.program) = 1 THEN NoTask
    ELSE [tk EXCEPT !.program = Tail(@), !.waiting = FALSE]
NextIns(t) == Head(tasks[t].program)
AtIns(t, kinds) == tasks[t].program # << >> /\ NextIns(t).ins \in kinds

\* A task begins an operation.  An operation that takes no lock (an unknown
\* kind) returns at once.
TaskStart(t, o) ==
    /\ tasks[t].op = "none"
    /\ ProgramOf(o) # << >>
    /\ tasks' = [tasks EXCEPT ![t] =
                   [op |-> o.op, kind |-> o.kind, model |-> o.model,
                    program |-> ProgramOf(o), found |-> FALSE, waiting |-> FALSE]]
    /\ UNCHANGED << registries, workers, provider, receiver_dropped, rwlock, gate_state, semaphore,
                    request_queue, response_cache, req, headers, hpc, wpc, exec,
                    response_rx, stream_rx, http, counters >>

\* map.read().await / map.write().await: the guard is handed out at once if
\* nobody waits and the lock allows it, otherwise the task joins the waiters.
LockAcquire(t) ==
    /\ AtIns(t, {"read", "write"})
    /\ ~tasks[t].waiting
    /\ LET l == NextIns(t).lock
           mode == NextIns(t).ins
       IN  IF rwlock[l].waiters = << >> /\ Grantable(rwlock[l], mode)
           THEN /\ rwlock' = [rwlock EXCEPT ![l] = Granted(@, t, mode)]
                /\ tasks' = [tasks EXCEPT ![t] = Advance(@)]
           ELSE /\ rwlock' = [rwlock EXCEPT ![l].waiters = Append(@, t)]
                /\ tasks' = [tasks EXCEPT ![t].waiting = TRUE]
    /\ UNCHANGED << registries, workers, provider, receiver_dropped, gate_state, semaphore,
                    request_queue, response_cache, req, headers, hpc, wpc, exec,
                    response_rx, stream_rx, http, counters >>

\* The first waiter gets its guard as soon as the lock allows it.
LockGrant(t) ==
    /\ AtIns(t, {"read", "write"})
    /\ tasks[t].waiting
    /\ LET l == NextIns(t).lock
           mode == NextIns(t).ins
       IN  /\ Head(rwlock[l].waiters) = t
           /\ Grantable(rwlock[l], mode)
           /\ rwlock' = [rwlock EXCEPT ![l] = Granted([@ EXCEPT !.waiters = Tail(@)], t, mode)]
           /\ tasks' = [tasks EXCEPT ![t] = Advance(@)]
    /\ UNCHANGED << registries, workers, provider, receiver_dropped, gate_state, semaphore,
                    request_queue, response_cache, req, headers, hpc, wpc, exec,
                    response_rx, stream_rx, http, counters >>

\* A guard goes out of scope.
LockDrop(t) ==
    /\ AtIns(t, {"drop"})
    /\ rwlock' = [rwlock EXCEPT ![NextIns(t).lock] =
                    [@ EXCEPT !.readers = @ \ {t}, !.writer = @ \ {t}]]
    /\ tasks' = [tasks EXCEPT ![t] = Advance(@)]
    /\ UNCHANGED << registries, workers, provider, receiver_dropped, gate_state, semaphore,
                    request_queue, response_cache, req, headers, hpc, wpc, exec,
                    response_rx, stream_rx, http, counters >>

\* map.get(&model_name).cloned() under the guards (mod.rs:159, 295, 332): a
\* request whose model is not there makes no backend call.
TaskGet(t) ==
    /\ AtIns(t, {"get"})
    /\ LET found ==
             CASE tasks[t].op = "chat" ->
                    \/ tasks[t].model \in DOMAIN llm_runtimes
                    \/ tasks[t].model \in DOMAIN multimodal_runtimes
               [] tasks[t].op = "embeddings" -> tasks[t].model \in DOMAIN embedding_runtimes
               [] OTHER -> tasks[t].model \in DOMAIN image_runtimes
           rest == Tail(tasks[t].program)
       IN  tasks' = [tasks EXCEPT ![t] =
                       [@ EXCEPT !.found = found,
                                 !.program = IF found THEN rest
                                             ELSE SelectSeq(rest, LAMBDA i : i.ins # "backend")]]
    /\ UNCHANGED << registries, workers, provider, receiver_dropped, rwlock, gate_state, semaphore,
                    request_queue, response_cache, req, headers, hpc, wpc, exec,
                    response_rx, stream_rx, http, counters >>

\* insert / remove under the write guard (mod.rs:476, 488, 517, 526-528).
TaskMutate(t) ==
    /\ AtIns(t, {"mutate"})
    /\ LET outcome == IF tasks[t].op = "load"
                      THEN load_model(Regs, provider, tasks[t].kind, tasks[t].model, None)
                      ELSE unload_model(Regs, tasks[t].kind, tasks[t].model)
       IN  /\ llm_runtimes' = outcome.llm
           /\ embedding_runtimes' = outcome.embedding
           /\ multimodal_runtimes' = outcome.multimodal
    /\ tasks' = [tasks EXCEPT ![t] = Advance(@)]
    /\ UNCHANGED << image_runtimes, workers, provider, receiver_dropped, rwlock, gate_state, semaphore,
                    request_queue, response_cache, req, headers, hpc, wpc, exec,
                    response_rx, stream_rx, http, counters >>

\* The backend call of the task returns.
TaskBackendReturn(t) ==
    /\ AtIns(t, {"backend"})
    /\ tasks' = [tasks EXCEPT ![t] = Advance(@)]
    /\ UNCHANGED << registries, workers, provider, receiver_dropped, rwlock, gate_state, semaphore,
                    request_queue, response_cache, req, headers, hpc, wpc, exec,
                    response_rx, stream_rx, http, counters >>

\* What a task that has begun does next.
TaskStep(t) ==
    \/ LockAcquire(t)
    \/ LockGrant(t)
    \/ LockDrop(t)
    \/ TaskGet(t)
    \/ TaskMutate(t)
    \/ TaskBackendReturn(t)
NextLocks ==
    \/ \E t \in Tasks, o \in LockOps : TaskStart(t, o)
    \/ \E t \in Tasks : TaskStep(t)

\* Lookups, listings, loads and unloads interleaved at the level of the locks.
SpecLocks == InitSingle /\ [][NextLocks]_vars
\* The same with every task that has begun scheduled fairly: the runtime
\* polls every task that can go on, and a backend call returns.
FairLockOps ==
    { o \in LockOps : o.op \in {"chat", "embeddings", "images", "list"} }
    \cup {[op |-> "load", kind |-> "multimodal", model |-> "dummy-model"],
          [op |-> "unload", kind |-> "llm", model |-> "dummy-model"]}
NextLocksFair ==
    \/ \E t \in Tasks, o \in FairLockOps : TaskStart(t, o)
    \/ \E t \in Tasks : TaskStep(t)
SpecLocksFair ==
    InitSingle /\ [][NextLocksFair]_vars /\ \A t \in Tasks : WF_vars(TaskStep(t))

\* ==================================================================== claims
PermitHolders == { r \in Slots : exec[r].permit }
BackendCallers == { r \in Slots : wpc[r] = "backend" }
\* Where an execution is between taking its permit and the end of its block.
ExecutingPcs == {"lookup", "s_role", "backend", "s_content", "s_done", "s_sentinel",
                 "reply", "release"}
NotExecutingPcs == {"none", "queued", "spawned", "finished"}
Connected(r) == ~response_rx[r].rx_closed /\ ~stream_rx[r].rx_closed
BackendFailed(r) ==
    exec[r].call # "none" /\ exec[r].result.some /\ ~exec[r].result.v.ok

\* C1: at every moment at most W executions hold a permit, at most W backend
\* calls are in progress, and an execution that is past the acquire (reading
\* a registry, calling a backend, writing its reply) holds a permit.
C1_PermitBound ==
    /\ Cardinality(PermitHolders) <= workers
    /\ Cardinality(BackendCallers) <= workers
    /\ \A r \in Slots : wpc[r] \in ExecutingPcs => exec[r].permit
\* Every permit is held by a backend call in progress while an execution of
\* another request kind waits for one.
C1_Witness ==
    /\ workers >= 1
    /\ Cardinality(BackendCallers) = workers
    /\ \E r, s \in Slots :
         wpc[r] = "backend" /\ wpc[s] = "spawned" /\ req[r].kind # req[s].kind

\* C2: permits held plus permits available is W; an execution that has ended
\* (or has not yet acquired) holds none; when no execution is between acquire
\* and end, all W permits are available.
C2_PermitsConserved ==
    /\ Cardinality(PermitHolders) + semaphore = workers
    /\ \A r \in Slots : wpc[r] \in NotExecutingPcs => ~exec[r].permit
    /\ (\A r \in Slots : wpc[r] \in NotExecutingPcs) => semaphore = workers
\* Two executions have ended, one after a backend error on a stream whose
\* client went away, one on a model that was not found, and all permits are
\* back.
C2_Witness ==
    /\ workers >= 1
    /\ semaphore = workers
    /\ \E r, s \in Slots :
         /\ wpc[r] = "finished" /\ BackendFailed(r) /\ stream_rx[r].rx_closed
         /\ wpc[s] = "finished" /\ ~exec[s].found

\* C3: what a stream emitter has received is at every moment a prefix of:
\* role chunk, content chunk, done chunk (finish_reason "stop"), [DONE]; the
\* chunks carry one id and one created value; a stream whose model resolved
\* and whose client stayed has all four when its execution ends; nothing is
\* ever written to the emitter of a request that is not a streaming chat.
ChunkHeadOk(c, e, model) ==
    /\ c.object = "chat.completion.chunk"
    /\ c.model = model
    /\ c.id = e.id
    /\ c.created = e.created
    /\ Len(c.choices) = 1
    /\ c.choices[1].index = 0
StreamPrefixOk(r) ==
    LET it == stream_rx[r].items
    IN  /\ Len(it) <= 4
        /\ Len(it) >= 1 =>
             /\ ChunkHeadOk(it[1], exec[r], req[r].model)
             /\ it[1].choices[1].delta = [role |-> Some("assistant"), content |-> None]
             /\ it[1].choices[1].finish_reason = None
        /\ Len(it) >= 2 =>
             /\ ChunkHeadOk(it[2], exec[r], req[r].model)
             /\ it[2].choices[1].delta.role = None
             /\ it[2].choices[1].delta.content.some
             /\ it[2].choices[1].finish_reason = None
        /\ Len(it) >= 3 =>
             /\ ChunkHeadOk(it[3], exec[r], req[r].model)
             /\ it[3].choices[1].delta = [role |-> None, content |-> None]
             /\ it[3].choices[1].finish_reason = Some("stop")
        /\ Len(it) >= 4 => it[4] = "[DONE]"
C3_StreamFraming ==
    \A r \in Slots :
        /\ StreamPrefixOk(r)
        /\ ~IsStream(req[r]) => stream_rx[r].items = <<>>
        /\ (IsStream(req[r]) /\ exec[r].found /\ wpc[r] = "finished" /\ Connected(r))
             => Len(stream_rx[r].items) = 4
\* Two streams at once: one complete, the other under way, with different ids.
C3_Witness ==
    \E r, s \in Slots :
        /\ IsStream(req[r]) /\ IsStream(req[s]) /\ Connected(r) /\ Connected(s)
        /\ Len(stream_rx[r].items) = 4
        /\ Len(stream_rx[s].items) \in 1..3
        /\ stream_rx[r].items[1].id # stream_rx[s].items[1].id

\* C4: when the backend call of a streaming chat failed with message m, the
\* content chunk carries "[error: m]", and the stream of a client that stayed
\* ends with the done chunk and [DONE]: four messages, as without the failure.
C4_StreamBackendError ==
    \A r \in Slots :
        (IsStream(req[r]) /\ BackendFailed(r)) =>
            LET it == stream_rx[r].items
                m == exec[r].result.v.err
            IN  /\ Len(it) >= 2 =>
                     it[2].choices[1].delta.content = Some("[error: " \o m \o "]")
                /\ (wpc[r] = "finished" /\ Connected(r)) =>
                     /\ Len(it) = 4
                     /\ it[3].choices[1].finish_reason = Some("stop")
                     /\ it[4] = "[DONE]"
C4_Witness ==
    \E r \in Slots :
        /\ IsStream(req[r]) /\ BackendFailed(r) /\ Connected(r)
        /\ wpc[r] = "finished"
        /\ Len(stream_rx[r].items) = 4

\* C5: when the backend call of a buffered chat failed, the one reply is a
\* success and the caller gets HTTP 200 with a chat.completion of one choice,
\* finish_reason "stop", whose message content is the empty string.
EmptyCompletion(resp) ==
    /\ resp.object = "chat.completion"
    /\ Len(resp.choices) = 1
    /\ resp.choices[1].message.content = ""
    /\ resp.choices[1].finish_reason = "stop"
C5_BufferedBackendError ==
    \A r \in Slots :
        (IsBufferedChat(req[r]) /\ BackendFailed(r)) =>
            /\ response_rx[r].items # <<>> =>
                 /\ response_rx[r].items[1].ok
                 /\ EmptyCompletion(response_rx[r].items[1].val)
            /\ hpc[r] = "done" =>
                 /\ http[r].status = 200
                 /\ http[r].kind = "json"
                 /\ EmptyCompletion(http[r].body)
C5_Witness ==
    \E r \in Slots :
        /\ IsBufferedChat(req[r]) /\ BackendFailed(r)
        /\ hpc[r] = "done" /\ http[r].status = 200

\* The backend the routing table names for what the lookup found.
TableCall(image_urls, llm_opt, mm_opt) ==
    IF ~llm_opt /\ ~mm_opt THEN "none"
    ELSE IF image_urls = <<>> THEN (IF llm_opt THEN "generate" ELSE "none")
    ELSE IF mm_opt THEN "generate_from_vision"
    ELSE "generate"
Routed(r) == req[r].kind = "chat" /\ wpc[r] \in {"release", "finished"}
RoutedCallOk(r) ==
    LET e == exec[r]
    IN  /\ e.call = TableCall(e.image_urls, e.llm_opt, e.mm_opt)
        /\ (e.call = "generate" /\ e.result.some /\ e.result.v.ok) =>
             e.result.v.val = DummyGenerate(e.prompt,
                 GenerationOptions_from_request(req[r].max_tokens, req[r].temperature,
                                                req[r].top_p))
\* The outcome is an error and no completion: the buffered reply is an Err;
\* the stream carries something that reports it.
RequiresImagesOutcomeOk(r) ==
    IF req[r].stream
    THEN Len(stream_rx[r].items) >= 2 =>
           stream_rx[r].items[2].choices[1].delta.content
               = Some("[error: Model requires images]")
    ELSE response_rx[r].items # <<>> => ~response_rx[r].items[1].ok
NotFoundOutcomeOk(r) ==
    IF req[r].stream
    THEN Connected(r) => stream_rx[r].items # <<>>
    ELSE Connected(r) => response_rx[r].items = << Err(NotFoundMessage(req[r].model)) >>

\* C6: a chat execution calls the backend the routing table names, in
\* buffered and in streaming mode alike; with no images, no llm handle and a
\* multimodal handle the outcome is the error "model requires images" and not
\* a successful completion; with neither handle it is model not found.
C6_ChatRoutingTable ==
    \A r \in Slots :
        Routed(r) =>
            /\ RoutedCallOk(r)
            /\ (exec[r].image_urls = <<>> /\ ~exec[r].llm_opt /\ exec[r].mm_opt)
                 => RequiresImagesOutcomeOk(r)
            /\ (~exec[r].llm_opt /\ ~exec[r].mm_opt) => NotFoundOutcomeOk(r)

\* C7: a buffered chat whose model is in neither registry when it is executed
\* calls no backend and is answered with HTTP 400 carrying the model-not-found
\* message.
C7_BufferedChatNotFound ==
    \A r \in Slots :
        (IsBufferedChat(req[r]) /\ wpc[r] \in {"release", "finished"} /\ ~exec[r].found) =>
            /\ exec[r].call = "none"
            /\ hpc[r] = "done" =>
                 /\ http[r].status = 400
                 /\ http[r].kind = "error"
                 /\ http[r].body.message = NotFoundMessage(req[r].model)

\* C8: a streaming chat whose model is in neither registry does not end as a
\* successful event stream with no chunk and no [DONE]: the client gets a
\* bad-request-class answer that reports model not found.
C8_StreamChatNotFound ==
    \A r \in Slots :
        (IsStream(req[r]) /\ wpc[r] = "finished" /\ ~exec[r].found /\ hpc[r] = "done") =>
            /\ http[r] # SseResponse(<<>>)
            /\ http[r].status = 400

\* C9: an embeddings or images execution whose model is not in its registry
\* calls no backend and sends the one reply Err("Model <name> not found"); one
\* whose backend failed with m sends the one reply Err(m); the client gets
\* HTTP 400 with that message.
RuntimeFailure(r) ==
    IF ~exec[r].found THEN NotFoundMessage(req[r].model) ELSE exec[r].result.v.err
C9_RuntimeErrors ==
    \A r \in Slots :
        req[r].kind \in {"embeddings", "images"} =>
            /\ Len(response_rx[r].items) <= 1
            /\ (wpc[r] \in {"reply", "release", "finished"} /\ ~exec[r].found) =>
                 exec[r].call = "none"
            /\ (wpc[r] \in {"release", "finished"} /\ (~exec[r].found \/ BackendFailed(r))) =>
                 /\ Connected(r) => response_rx[r].items = << Err(RuntimeFailure(r)) >>
                 /\ hpc[r] = "done" =>
                      http[r] = [status |-> 400, kind |-> "error",
                                 body |-> [message |-> RuntimeFailure(r)]]
\* An embeddings request on a model that is not loaded has its error reply
\* while an images request whose backend failed was answered with 400.
C9_Witness ==
    \E r, s \in Slots :
        /\ req[r].kind = "embeddings" /\ wpc[r] = "finished" /\ ~exec[r].found
        /\ response_rx[r].items = << Err(NotFoundMessage(req[r].model)) >>
        /\ req[s].kind = "images" /\ BackendFailed(s)
        /\ hpc[s] = "done" /\ http[s].status = 400

\* C10: the lookup of a buffered chat whose fingerprint is in the cache can
\* always be taken, whatever the queue and the permits; it answers with the
\* cached response and leaves the queue, the permits and every execution as
\* they were; a request answered from the cache never had an execution.
CacheHit(r) ==
    hpc[r] = "cache_get" /\ CacheGet(response_cache, hash_chat_request(req[r])).some
ServedFromCache(r) == hpc[r] = "done" /\ counters[r].cache_hit_total = 1
C10_CacheHitState ==
    \A r \in Slots :
        /\ CacheHit(r) => ENABLED ProcessChatCacheGet(r)
        /\ ServedFromCache(r) =>
             wpc[r] = "none" /\ ~exec[r].permit /\ exec[r].call = "none"
C10_CacheHitStep ==
    \A r \in Slots :
        (CacheHit(r) /\ hpc'[r] # hpc[r]) =>
            /\ hpc'[r] = "done"
            /\ http'[r] = JsonResponse(CacheGet(response_cache, hash_chat_request(req[r])).v)
            /\ UNCHANGED << request_queue, semaphore, wpc, exec, response_rx, stream_rx >>
C10_CacheHitBypass == []C10_CacheHitState /\ [][C10_CacheHitStep]_vars
\* A request is answered from the cache while the only permits are held by a
\* backend call in progress and the queue is full.
C10_Witness ==
    /\ workers >= 1
    /\ semaphore = 0
    /\ Len(request_queue) = QueueCap
    /\ \E r, a \in Slots :
         /\ ServedFromCache(r) /\ http[r].status = 200
         /\ wpc[a] = "backend"

\* C11: a streaming chat never looks the cache up and never registers a hit,
\* a miss or a store; it is always enqueued, its steps leave the cache as it
\* is, and when its model resolved the client reads the full stream, also
\* when the cache holds the response of the identical buffered request.
C11_StreamState ==
    \A r \in Slots :
        IsStream(req[r]) =>
            /\ hpc[r] # "cache_get"
            /\ counters[r] = NoCounters
            /\ hpc[r] \in {"sse", "done"} => wpc[r] # "none"
            /\ (hpc[r] = "done" /\ exec[r].found) =>
                 /\ http[r] = SseResponse(stream_rx[r].items)
                 /\ Len(stream_rx[r].items) = 4
C11_StreamStep ==
    \A r \in Slots :
        ((IsStream(req[r]) \/ IsStream(req'[r])) /\ (hpc'[r] # hpc[r] \/ wpc'[r] # wpc[r]))
            => response_cache' = response_cache
C11_StreamBypassesCache == []C11_StreamState /\ [][C11_StreamStep]_vars
C11_Witness ==
    \E r \in Slots :
        /\ IsStream(req[r]) /\ hpc[r] = "done"
        /\ Len(http[r].body) = 4
        /\ hash_chat_request(req[r]) \in DOMAIN response_cache

\* C12: of two consecutive identical buffered chats the first registers a
\* miss and its successful response is stored under the fingerprint as it is
\* returned; the second, while the entry is there, registers a hit, calls no
\* backend and returns the stored response, hence the same message content;
\* between the two only expiry changes the cache.
Fingerprint(r) == hash_chat_request(req[r])
C12_StoreStep ==
    \A r \in Slots :
        (IsBufferedChat(req[r])
           /\ counters'[r].cache_store_total = counters[r].cache_store_total + 1) =>
            /\ counters[r].cache_miss_total = 1 /\ counters[r].cache_hit_total = 0
            /\ http'[r].status = 200
            /\ CacheGet(response_cache', Fingerprint(r)) = Some(http'[r].body)
C12_HitStep ==
    \A r \in Slots :
        (CacheHit(r) /\ hpc'[r] # hpc[r]) =>
            /\ counters'[r].cache_hit_total = 1 /\ counters'[r].cache_miss_total = 0
            /\ http'[r].status = 200
            /\ http'[r].body = response_cache[Fingerprint(r)]
            /\ http'[r].body.choices[1].message.content
                 = response_cache[Fingerprint(r)].choices[1].message.content
            /\ wpc'[r] = "none" /\ exec'[r].call = "none"
C12_CacheStep ==
    response_cache' # response_cache =>
        \/ \E r \in Slots :
             counters'[r].cache_store_total = counters[r].cache_store_total + 1
        \/ \E key \in DOMAIN response_cache :
             response_cache' = CacheRemove(response_cache, key)
C12_RepeatIsHit == [][C12_StoreStep /\ C12_HitStep /\ C12_CacheStep]_vars
\* The second request has been answered from the entry the first one stored.
C12_Witness ==
    \E r \in Slots :
        /\ IsBufferedChat(req[r]) /\ hpc[r] = "done"
        /\ counters[r] = [cache_hit_total |-> 1, cache_miss_total |-> 0,
                          cache_store_total |-> 0]
        /\ Fingerprint(r) \in DOMAIN response_cache
        /\ http[r].body = response_cache[Fingerprint(r)]
        /\ http[r].body.choices[1].message.content = "Echo: hello"

\* C13: a buffered chat stores its response in the cache only when its
\* backend call succeeded; when the call failed, or no backend was called,
\* nothing is stored for it.
C13_StoreAfterBackendSuccess ==
    \A r \in Slots :
        (IsBufferedChat(req[r]) /\ wpc[r] \in {"release", "finished"}
           /\ counters[r].cache_store_total > 0) =>
            /\ exec[r].call # "none"
            /\ exec[r].result.some
            /\ exec[r].result.v.ok

\* C14: the dispatch queue never holds more than its capacity; a producer at
\* its push can go on exactly when the queue has a free slot; when it goes on
\* its envelope is at the tail of the queue (only a client that goes away
\* gives the push up), and envelopes leave the queue only at its head.
C14_QueueState ==
    /\ Len(request_queue) <= QueueCap
    /\ \A r \in Slots :
         hpc[r] = "send" => (ENABLED Enqueue(r) <=> Len(request_queue) < QueueCap)
C14_QueueStep ==
    /\ \A r \in Slots :
         (hpc[r] = "send" /\ hpc'[r] # "send") =>
             \/ request_queue' = Append(request_queue, r) /\ wpc'[r] = "queued"
             \/ hpc'[r] = "gone"
    /\ request_queue' # request_queue =>
         \/ \E r \in Slots : hpc[r] = "send" /\ request_queue' = Append(request_queue, r)
         \/ request_queue # <<>> /\ request_queue' = Tail(request_queue)
                /\ wpc'[Head(request_queue)] = "spawned"
C14_QueueBounded == []C14_QueueState /\ [][C14_QueueStep]_vars
\* The queue is full, a producer waits at its push, and a producer that
\* waited before has its envelope in the queue.
C14_Witness ==
    /\ Len(request_queue) = QueueCap
    /\ \E r \in Slots : hpc[r] = "send"
    /\ \E s \in Slots : wpc[s] \in ExecutingPcs

\* C15: a request whose push onto the dispatch queue failed is answered with
\* an internal error (HTTP 500), whatever its kind and mode; it is not
\* answered with a success or another class of error.
PushFailed(r) ==
    /\ req[r].kind # "none"
    /\ hpc[r] = "done"
    /\ wpc[r] = "none"
    /\ counters[r].cache_hit_total = 0
C15_PushFailureIsInternal ==
    \A r \in Slots :
        PushFailed(r) => http[r].status = 500 /\ http[r].kind = "error"

\* C16: the queue holds the envelopes that were pushed and not yet taken, each
\* once; a push puts the envelope at the tail and the supervisor takes the
\* one at the head, so envelopes are dequeued in the order they were
\* enqueued; among the executions spawned, any one may take a free permit.
C16_FifoState ==
    /\ \A i, j \in 1..Len(request_queue) : i # j => request_queue[i] # request_queue[j]
    /\ { request_queue[i] : i \in 1..Len(request_queue) } = { r \in Slots : wpc[r] = "queued" }
    /\ \A r \in Slots : (wpc[r] = "spawned" /\ semaphore > 0) => ENABLED AcquirePermit(r)
C16_FifoStep ==
    \A r \in Slots :
        /\ (wpc[r] = "none" /\ wpc'[r] = "queued") =>
             request_queue' = Append(request_queue, r)
        /\ (wpc[r] = "queued" /\ wpc'[r] # "queued") =>
             /\ r = Head(request_queue)
             /\ request_queue' = Tail(request_queue)
             /\ wpc'[r] = "spawned"
C16_DequeueInOrder == []C16_FifoState /\ [][C16_FifoStep]_vars
\* Two envelopes wait in the queue behind two that were dequeued, and either
\* of the two executions may take the free permit.
C16_Witness ==
    /\ Len(request_queue) = 2
    /\ semaphore > 0
    /\ \E a, b \in Slots : a # b /\ wpc[a] = "spawned" /\ wpc[b] = "spawned"

\* C17: an envelope enters the queue once, from the push of its handler, and
\* leaves it once, to its execution; the reply channel of a buffered envelope
\* (buffered chat, embeddings, images) never holds two messages, holds none
\* before the execution has written its reply, and holds exactly one, a
\* success or an error, once the execution is past its reply and the handler
\* still listens; nothing is written on a reply channel for a stream.
IsBuffered(q) == q.kind \in {"chat", "embeddings", "images"} /\ ~IsStream(q)
C17_ReplyState ==
    \A r \in Slots :
        /\ Len(response_rx[r].items) <= 1
        /\ ~IsBuffered(req[r]) => response_rx[r].items = <<>>
        /\ IsBuffered(req[r]) =>
             /\ wpc[r] \notin {"release", "finished"} => response_rx[r].items = <<>>
             /\ (wpc[r] \in {"release", "finished"} /\ Connected(r)) =>
                  Len(response_rx[r].items) = 1
             /\ wpc[r] \notin {"s_role", "s_content", "s_done", "s_sentinel"}
C17_EnvelopeStep ==
    \A r \in Slots :
        /\ (wpc'[r] = "queued" /\ wpc[r] # "queued") => (wpc[r] = "none" /\ hpc[r] = "send")
        /\ (wpc'[r] = "spawned" /\ wpc[r] # "spawned") => wpc[r] = "queued"
        /\ (wpc[r] \notin {"none", "queued"} /\ req'[r] = req[r]) => wpc'[r] \notin {"none", "queued"}
        /\ Len(response_rx'[r].items) > Len(response_rx[r].items) => wpc[r] = "reply"
C17_ExactlyOneReply == []C17_ReplyState /\ [][C17_EnvelopeStep]_vars
\* Two buffered executions of different kinds are past their reply, one with
\* a success and one with an error on its reply channel.
C17_Witness ==
    \E r, s \in Slots :
        /\ IsBuffered(req[r]) /\ IsBuffered(req[s]) /\ req[r].kind # req[s].kind
        /\ wpc[r] = "finished" /\ wpc[s] = "finished"
        /\ Len(response_rx[r].items) = 1 /\ response_rx[r].items[1].ok
        /\ Len(response_rx[s].items) = 1 /\ ~response_rx[s].items[1].ok

\* C18: a request the gate refuses is answered in the step in which it
\* arrives, with a bad-request error that says Unauthorized or Rate limit
\* exceeded, and that step looks no cache up, pushes nothing onto the queue,
\* changes no registry and starts no execution, also when the cache holds the
\* response of an identical request; nothing is done for it afterwards.
GateMessages == {"Unauthorized", "Rate limit exceeded"}
Refused(r) ==
    /\ hpc[r] = "done"
    /\ http[r].kind = "error"
    /\ http[r].body.message \in GateMessages
C18_RefusedState ==
    \A r \in Slots :
        Refused(r) => wpc[r] = "none" /\ exec[r] = NoExec /\ counters[r] = NoCounters
                        /\ response_rx[r] = NewChannel /\ stream_rx[r] = NewChannel
C18_RefusedStep ==
    \A r \in Slots :
        (hpc[r] = "idle" /\ hpc'[r] # "idle"
           /\ ~authorize_request(headers'[r].authorization, api_keys_env, rate_limiter).result.ok)
        => /\ hpc'[r] = "done"
           /\ http'[r].status = 400
           /\ http'[r].kind = "error"
           /\ http'[r].body.message \in GateMessages
           /\ UNCHANGED << registries, response_cache, request_queue, semaphore,
                           wpc, exec, counters, response_rx, stream_rx >>
C18_GateFirst == []C18_RefusedState /\ [][C18_RefusedStep]_vars
\* A buffered chat is refused while the cache holds the response of the
\* identical request.
C18_Witness ==
    \E r \in Slots :
        /\ IsBufferedChat(req[r]) /\ Refused(r)
        /\ Fingerprint(r) \in DOMAIN response_cache

\* C19: with no API key configured every request passes the gate, whatever
\* its header; with keys configured a request passes only if its
\* authorization header is exactly "Bearer " followed by one of the keys,
\* and a request whose header is anything else is refused as Unauthorized.
ConfiguredKeys ==
    CASE api_keys_env = Some(<<"a">>) -> { <<"a">> }
      [] api_keys_env = Some(<< "a", ",", " ", "b", " ", "," >>) -> { <<"a">>, <<"b">> }
      [] OTHER -> {}
BearsKey(h) == h.some /\ \E k \in ConfiguredKeys : h.v = BearerPrefix \o k
Answered(r) == hpc[r] = "done" /\ req[r].kind = "admin_unload"
C19_GateVerdict ==
    \A r \in Slots :
        Answered(r) =>
            /\ ConfiguredKeys = {} => http[r].status = 200
            /\ ConfiguredKeys # {} =>
                 /\ http[r].status = 200 => BearsKey(headers[r].authorization)
                 /\ ~BearsKey(headers[r].authorization) =>
                      http[r] = AppErrorResponse("BadRequest", "Unauthorized")
\* With two keys configured a request that bears the second one has passed.
C19_Witness ==
    \E r \in Slots :
        /\ Answered(r)
        /\ ConfiguredKeys = { <<"a">>, <<"b">> }
        /\ headers[r].authorization = Some(BearerPrefix \o <<"b">>)
        /\ http[r].status = 200

\* C20: in any window of one minute (QuotaPerMinute replenish intervals) at
\* most QuotaPerMinute requests that carry the same configured key are
\* accepted, whatever their spacing inside the window: the next one is
\* refused with "Rate limit exceeded".
AcceptedWith(r, h) ==
    /\ Answered(r)
    /\ BearsKey(h)
    /\ headers[r].authorization = h
    /\ http[r].status = 200
WithinOneMinute(S) ==
    \A r1, r2 \in S : headers[r1].at - headers[r2].at < QuotaPerMinute
C20_QuotaPerWindow ==
    \A h \in QuotaHeaders : \A S \in SUBSET QuotaSlots :
        ((\A r \in S : AcceptedWith(r, h)) /\ WithinOneMinute(S))
            => Cardinality(S) <= QuotaPerMinute

\* What list returns for a kind, and how often a sequence of names holds one.
ListOf(kind) ==
    CASE kind = "llm" -> Listed(llm_runtimes)
      [] kind = "embedding" -> Listed(embedding_runtimes)
      [] kind = "multimodal" -> Listed(multimodal_runtimes)
      [] kind = "image" -> Listed(image_runtimes)
Occurrences(names, n) == Cardinality({ i \in 1..Len(names) : names[i] = n })
DummyName(kind) ==
    CASE kind = "llm" -> "dummy-model"
      [] kind = "embedding" -> "dummy-embedding"
      [] kind = "multimodal" -> "dummy-model"
      [] kind = "image" -> "dummy-image"
ListKinds == {"llm", "embedding", "multimodal", "image"}
DummyListed(kind) == Occurrences(ListOf(kind), DummyName(kind)) >= 1
\* The step is an accepted unload of the dummy of the kind.
UnloadsDummy(kind) ==
    \E r \in Slots :
        /\ hpc[r] = "idle" /\ hpc'[r] = "done"
        /\ req'[r].kind = "admin_unload"
        /\ req'[r].model_kind = kind
        /\ req'[r].model = DummyName(kind)

\* C21: right after construction, in every build and whatever the provider
\* seed variables are, list shows dummy-model for llm, dummy-embedding for
\* embedding, dummy-model for multimodal and dummy-image for image; a dummy
\* stays listed until it is unloaded.
C21_AfterNew == \A kind \in ListKinds : DummyListed(kind)
C21_DummyKept ==
    \A kind \in ListKinds :
        (DummyListed(kind) /\ ~UnloadsDummy(kind)) => DummyListed(kind)'
C21_DummiesListed == C21_AfterNew /\ [][C21_DummyKept]_vars
\* The engine was just built with the llama seed loaded and a variable of the
\* llava seed that does not load: the dummies are listed with the seed.
C21_Witness ==
    /\ \A r \in Slots : hpc[r] = "idle" /\ http[r] = NoHttp
    /\ "llava" \in provider.features /\ "onnx" \in provider.features
    /\ provider.env["LLAVA_VISION_MODEL_PATH"] = Some(<<"x">>)
    /\ Occurrences(ListOf("llm"), "llama-cpp") = 1
    /\ C21_AfterNew

\* The step is the admin operation of route on slot r, gate passed.
AdminStep(r, route) ==
    /\ hpc[r] = "idle" /\ hpc'[r] = "done"
    /\ req'[r].kind = route
RegistryKinds == {"llm", "embedding", "multimodal"}
\* What list returns for a kind once the step is taken.
ListAfter(kind) ==
    CASE kind = "llm" -> Listed(llm_runtimes')
      [] kind = "embedding" -> Listed(embedding_runtimes')
      [] kind = "multimodal" -> Listed(multimodal_runtimes')
      [] kind = "image" -> Listed(image_runtimes')

\* C22: for each kind of registry and any name, once a load of the name with
\* no path has returned list shows the name in the registry of the kind,
\* exactly once even if it was there before; once an unload of the name has
\* returned list shows it no more.
C22_LoadStep ==
    \A r \in Slots :
        (AdminStep(r, "admin_load") /\ req'[r].model_kind \in RegistryKinds
            /\ req'[r].path = None)
        => Occurrences(ListAfter(req'[r].model_kind), req'[r].model) = 1
C22_UnloadStep ==
    \A r \in Slots :
        (AdminStep(r, "admin_unload") /\ req'[r].model_kind \in RegistryKinds)
        => Occurrences(ListAfter(req'[r].model_kind), req'[r].model) = 0
C22_LoadListUnload == [][C22_LoadStep /\ C22_UnloadStep]_vars

\* The registry of a kind.
RegistryOf(kind) ==
    CASE kind = "llm" -> llm_runtimes
      [] kind = "embedding" -> embedding_runtimes
      [] kind = "multimodal" -> multimodal_runtimes
      [] kind = "image" -> image_runtimes
AdminOk == JsonResponse([status |-> "ok"])

\* C23: an unload of a known kind succeeds; when the name is not in the
\* registry of the kind it changes no registry; and one more unload of the
\* same name would leave the registries as the first one left them.
C23_UnloadStep ==
    \A r \in Slots :
        (AdminStep(r, "admin_unload") /\ req'[r].model_kind \in RegistryKinds)
        => /\ http'[r] = AdminOk
           /\ req'[r].model \notin DOMAIN RegistryOf(req'[r].model_kind)
                => registries' = registries
           /\ LET again == unload_model(Regs', req'[r].model_kind, req'[r].model)
              IN  /\ again.result = Ok("()")
                  /\ again.llm = llm_runtimes'
                  /\ again.embedding = embedding_runtimes'
                  /\ again.multimodal = multimodal_runtimes'
C23_UnloadIdempotent == [][C23_UnloadStep]_vars
\* An unload of a name has returned success and the registries are as the
\* engine built them: nothing was there to remove.
C23_Witness ==
    \E r \in Slots :
        /\ hpc[r] = "done"
        /\ req[r] = AdminRequest("admin_unload", "embedding", "custom-model")
        /\ http[r] = AdminOk
        /\ llm_runtimes = NewLlmRuntimes(provider)
        /\ embedding_runtimes = NewEmbeddingRuntimes(provider)
        /\ multimodal_runtimes = NewMultimodalRuntimes(provider)

\* C24: a load or an unload whose kind is none of llm, embedding and
\* multimodal (the kind image included) is answered with HTTP 400 and the
\* message "unknown kind", and changes none of the four registries.
C24_UnknownKindStep ==
    \A r \in Slots :
        ((AdminStep(r, "admin_load") \/ AdminStep(r, "admin_unload"))
            /\ req'[r].model_kind \notin RegistryKinds)
        => /\ http'[r] = AppErrorResponse("BadRequest", "unknown kind")
           /\ http'[r].status = 400
           /\ registries' = registries
C24_UnknownKind == [][C24_UnknownKindStep]_vars
\* A load of kind image with a loadable path was refused, in a build with
\* every feature.
C24_Witness ==
    \E r \in Slots :
        /\ hpc[r] = "done"
        /\ req[r] = LoadModelRequest("custom-model", "image", Some(<<"g">>))
        /\ provider.features = Features
        /\ http[r].status = 400
        /\ "custom-model" \notin DOMAIN image_runtimes

\* The dummy backend of a kind, the feature that compiles its provider
\* loader in, and whether that loader can load from a path.
DummyOf(kind) == IF kind = "embedding" THEN "DummyEmbeddingRuntime" ELSE "DummyRuntime"
LoaderFeature(kind) ==
    CASE kind = "llm" -> "llama" [] kind = "embedding" -> "onnx" [] kind = "multimodal" -> "llava"
PathLoads(kind, path) ==
    /\ path.some
    /\ IF kind = "multimodal"
       THEN LET parts == SplitComma(path.v, <<>>)
            IN  Len(parts) = 3 /\ \A i \in 1..3 : FileLoads(parts[i])
       ELSE FileLoads(path.v)
RegistryAfter(kind) ==
    CASE kind = "llm" -> llm_runtimes'
      [] kind = "embedding" -> embedding_runtimes'
      [] kind = "multimodal" -> multimodal_runtimes'
      [] kind = "image" -> image_runtimes'

\* C25: a load of kind llm, embedding or multimodal never fails and the name
\* resolves in the registry of the kind afterwards; when the provider loader
\* is not compiled in, or the path is absent or does not load, it is the
\* dummy backend of the kind that is installed under the name.
C25_LoadStep ==
    \A r \in Slots :
        (AdminStep(r, "admin_load") /\ req'[r].model_kind \in RegistryKinds)
        => LET kind == req'[r].model_kind
               name == req'[r].model
           IN  /\ http'[r] = AdminOk
               /\ name \in DOMAIN RegistryAfter(kind)
               /\ (LoaderFeature(kind) \notin provider.features \/ ~PathLoads(kind, req'[r].path))
                    => RegistryAfter(kind)[name] = DummyOf(kind)
C25_LoadNeverFails == [][C25_LoadStep]_vars

\* The request of slot r went through its lookup.
LookedUp(r) == wpc[r] \in (ExecutingPcs \ {"lookup"}) \cup {"finished"}
\* The step is the lookup of slot r.
LookupStep(r) == wpc[r] = "lookup" /\ wpc'[r] # "lookup"
NotFoundReply(r) == Err(NotFoundMessage(req[r].model))

\* C26: a request that resolved its handle keeps it whatever is unloaded or
\* loaded meanwhile: its backend call can return and its reply is not "model
\* not found"; a load or an unload never has to wait for a request; a lookup
\* sees each registry as it is at that moment, so a request that looks a name
\* up after its unload resolves nothing, and the client of such a request
\* gets model not found.
C26_HandleKept ==
    \A r \in Slots :
        exec[r].found =>
            /\ wpc[r] = "backend" => ENABLED BackendReturn(r)
            /\ response_rx[r].items # <<>> => Head(response_rx[r].items) # NotFoundReply(r)
            /\ (IsStream(req[r]) /\ wpc[r] = "finished" /\ Connected(r))
                 => stream_rx[r].items # <<>>
C26_AdminNeverWaits ==
    \A k \in AdminKinds, n \in AdminNames :
        ENABLED LoadModel(k, n) /\ ENABLED UnloadModel(k, n)
C26_Snapshot ==
    \A r \in Slots :
        LookupStep(r) =>
            IF req[r].kind = "chat"
            THEN /\ exec'[r].llm_opt = (req[r].model \in DOMAIN llm_runtimes)
                 /\ exec'[r].mm_opt = (req[r].model \in DOMAIN multimodal_runtimes)
                 /\ exec'[r].found = (exec'[r].llm_opt \/ exec'[r].mm_opt)
            ELSE exec'[r].found
                   = (req[r].model \in DOMAIN (IF req[r].kind = "embeddings"
                                               THEN embedding_runtimes ELSE image_runtimes))
C26_NotFoundReaches ==
    \A r \in Slots :
        (LookedUp(r) /\ ~exec[r].found /\ hpc[r] = "done")
        => /\ http[r].kind = "error"
           /\ http[r].body.message = NotFoundMessage(req[r].model)
C26_ConcurrentUnload ==
    /\ [](C26_HandleKept /\ C26_AdminNeverWaits /\ C26_NotFoundReaches)
    /\ [][C26_Snapshot]_vars

\* The client of slot r went away after its envelope was enqueued.
Abandoned(r) == hpc[r] = "gone" /\ wpc[r] # "none"
\* Some step of the execution of slot r can be taken.
ExecutionCanStep(r) ==
    \/ ENABLED ChatLookup(r) \/ ENABLED RuntimeLookup(r)
    \/ ENABLED StreamSendRole(r) \/ ENABLED BackendReturn(r)
    \/ ENABLED StreamSendContent(r) \/ ENABLED StreamSendDone(r)
    \/ ENABLED StreamSendSentinel(r) \/ ENABLED Reply(r) \/ ENABLED Release(r)

\* C27: when the client went away after its envelope was enqueued, the
\* execution still takes a permit as soon as one is free, is never blocked
\* while it holds it, runs the backend call it was routed to up to its
\* result, and gives the permit back; what it writes to the closed reply
\* channel or emitter goes nowhere.
C27_AbandonedState ==
    \A r \in Slots :
        Abandoned(r) =>
            /\ (wpc[r] = "spawned" /\ semaphore > 0) => ENABLED AcquirePermit(r)
            /\ wpc[r] \in ExecutingPcs => exec[r].permit /\ ExecutionCanStep(r)
            /\ (exec[r].call # "none" /\ wpc[r] \in {"s_content", "s_done", "s_sentinel",
                                                     "reply", "release", "finished"})
                 => exec[r].result.some
            /\ wpc[r] = "finished" => ~exec[r].permit
C27_AbandonedStep ==
    \A r \in Slots :
        (response_rx[r].rx_closed /\ stream_rx[r].rx_closed /\ req'[r] = req[r])
        => /\ response_rx'[r].items = response_rx[r].items
           /\ stream_rx'[r].items = stream_rx[r].items
           /\ (wpc[r] \in {"lookup", "backend"} /\ wpc'[r] = "finished") => FALSE
C27_ClientGone == []C27_AbandonedState /\ [][C27_AbandonedStep]_vars
\* An abandoned execution went through a successful backend call and ended:
\* nothing was written for the client and every permit is back.
C27_Witness ==
    \E r \in Slots :
        /\ Abandoned(r)
        /\ wpc[r] = "finished"
        /\ exec[r].call # "none"
        /\ exec[r].result = Some(exec[r].result.v) /\ exec[r].result.v.ok
        /\ response_rx[r].items = <<>>
        /\ stream_rx[r].items = <<>>
        /\ semaphore = workers

\* The reply channel of slot r closed before any reply was written to it.
ReplyLost(r) ==
    /\ hpc[r] = "done"
    /\ wpc[r] = "finished"
    /\ response_rx[r].items = <<>>
    /\ response_rx[r].tx_dropped

\* C28: on every buffered endpoint (chat completions, embeddings, images
\* generations) a request whose push onto the queue failed, or whose reply
\* channel closed without a reply, is answered with an internal error,
\* HTTP 500.
C28_EngineFailureIsInternal ==
    \A r \in Slots :
        (IsBuffered(req[r]) /\ (PushFailed(r) \/ ReplyLost(r)))
        => http[r].kind = "error" /\ http[r].status = 500

\* The requests the queue accepted that hold no permit yet: their envelope
\* is in the queue, or taken by the supervisor and waiting for a permit.
AcceptedUnscheduled == { r \in Slots : wpc[r] \in {"queued", "spawned"} }

\* C29: at every moment at most QueueCap requests (the depth of the dispatch
\* queue) are accepted by the queue and not yet scheduled onto a permit.
C29_UnscheduledBounded == Cardinality(AcceptedUnscheduled) <= QueueCap

\* The value of ENGINE_WORKERS when it is the text of a positive integer.
PositiveInteger(env) ==
    IF env.some /\ \E n \in 1..MaxW : ToString(n) = env.v
    THEN Some(CHOOSE n \in 1..MaxW : ToString(n) = env.v)
    ELSE None

\* C30: the permit count W is a positive integer whatever ENGINE_WORKERS is:
\* its value when that is a positive integer, else the host parallelism,
\* else 4; W is never 0.
C30_WorkersPositive ==
    /\ workers >= 1
    /\ \A env \in EngineWorkersEnv, par \in AvailableParallelism \cup {None} :
         Workers(env, par) =
            IF PositiveInteger(env).some THEN PositiveInteger(env).v
            ELSE IF par.some THEN par.v
            ELSE DefaultWorkers

\* A buffered chat that missed the cache.
Missed(r) == IsBufferedChat(req[r]) /\ counters[r].cache_miss_total = 1

\* C31: identical buffered chats that all arrive before any of them has
\* stored its response are not coalesced: the cache lookup of one never waits
\* for another, each one that missed is enqueued, has its own backend call
\* and, its model resolved, gets its own successful reply, each stores once,
\* and every store leaves under the fingerprint the response it stored,
\* whatever was there.
C31_EachRuns ==
    \A r \in Slots :
        /\ hpc[r] = "cache_get" => ENABLED ProcessChatCacheGet(r)
        /\ Missed(r) =>
             /\ (hpc[r] = "send" /\ Len(request_queue) < QueueCap) => ENABLED Enqueue(r)
             /\ hpc[r] \in {"recv", "done"} => wpc[r] # "none"
             /\ (wpc[r] = "finished" /\ exec[r].found) =>
                    exec[r].call # "none" /\ exec[r].result.some
             /\ (hpc[r] = "done" /\ exec[r].found) =>
                    /\ response_rx[r].items # <<>>
                    /\ Head(response_rx[r].items).ok
                    /\ http[r].status = 200
                    /\ http[r].body = Head(response_rx[r].items).val
                    /\ counters[r].cache_store_total = 1
C31_EachStores ==
    \A r \in Slots :
        (Missed(r) /\ hpc[r] = "recv" /\ hpc'[r] = "done" /\ http'[r].status = 200) =>
            /\ counters'[r].cache_store_total = counters[r].cache_store_total + 1
            /\ response_cache' =
                 [key \in DOMAIN response_cache \cup {Fingerprint(r)} |->
                    IF key = Fingerprint(r) THEN http'[r].body ELSE response_cache[key]]
C31_NoSingleFlight == []C31_EachRuns /\ [][C31_EachStores]_vars
\* Two identical requests both missed and both went through a backend call:
\* one has stored its response, the other is about to store a different one.
C31_Witness ==
    \E r1, r2 \in Slots :
        /\ r1 # r2 /\ Missed(r1) /\ Missed(r2) /\ req[r1] = req[r2]
        /\ hpc[r1] = "done" /\ http[r1].status = 200
        /\ CacheGet(response_cache, Fingerprint(r1)) = Some(http[r1].body)
        /\ hpc[r2] = "recv" /\ wpc[r2] = "finished" /\ exec[r2].result.some
        /\ response_rx[r2].items # <<>>
        /\ Head(response_rx[r2].items).ok
        /\ Head(response_rx[r2].items).val # http[r1].body

\* The steps of a streaming execution in the order the specification gives
\* its states: AwaitingPermit (spawned), Generating (the lookup and the
\* backend call), then the writes of the role chunk (EmittedRole), of the
\* content chunk, of the done chunk and of the sentinel, then the release.
ClaimedStreamOrder ==
    << "spawned", "lookup", "backend", "s_role", "s_content", "s_done", "s_sentinel", "release" >>
ClaimedStreamPcs == { ClaimedStreamOrder[i] : i \in 1..Len(ClaimedStreamOrder) }
ClaimedPosition(pc) == CHOOSE i \in 1..Len(ClaimedStreamOrder) : ClaimedStreamOrder[i] = pc
\* C32: a streaming chat execution whose model resolved passes through
\* AwaitingPermit, Generating, EmittedRole, EmittedContent, EmittedDone,
\* EmittedSentinel in this order and never goes back, and the role chunk is
\* written only when the backend call of Generating has returned its result,
\* never before the backend is invoked.
C32_StateOrder ==
    [][\A r \in Slots :
         (IsStream(req[r]) /\ exec'[r].found /\ wpc'[r] # wpc[r]
            /\ wpc[r] \in ClaimedStreamPcs /\ wpc'[r] \in ClaimedStreamPcs) =>
           /\ ClaimedPosition(wpc'[r]) > ClaimedPosition(wpc[r])
           /\ wpc[r] = "s_role" => exec[r].result.some]_vars

\* The registry locks a task holds a guard of.
GuardsHeld(t) == { l \in RegistryNames : t \in rwlock[l].readers \cup rwlock[l].writer }
InBackendCall(t) == AtIns(t, {"backend"})
\* C33: a task whose backend call is in progress (chat, embeddings, images)
\* holds no guard of any registry lock: it found its handle, and dropped
\* every read guard before the call.  So no task that waits for a lock waits
\* for a task in a backend call, and when every task that has begun is in a
\* backend call all four locks are free, so that a load, an unload or a
\* listing gets its guards at once.
C33_NoGuardAcrossBackend ==
    /\ \A t \in Tasks : InBackendCall(t) => tasks[t].found /\ GuardsHeld(t) = {}
    /\ \A t, u \in Tasks :
         (tasks[t].waiting /\ NextIns(t).lock \in GuardsHeld(u)) => ~InBackendCall(u)
    /\ (\A t \in Tasks : tasks[t].op # "none" => InBackendCall(t)) =>
         \A l \in RegistryNames : rwlock[l] = NewRwLock
\* A chat and an embeddings backend call are in progress while an unload
\* holds the write guard of the llm registry.
C33_Witness ==
    \E t, u, v \in Tasks :
        /\ InBackendCall(t) /\ tasks[t].op = "chat"
        /\ InBackendCall(u) /\ tasks[u].op = "embeddings"
        /\ tasks[v].op = "unload" /\ rwlock["llm"].writer = {v}

\* The texts of the first n parts concatenated, and the URLs of the image
\* parts among them, part by part.
RECURSIVE TextsUpTo(_, _), UrlsUpTo(_, _)
TextsUpTo(parts, n) ==
    IF n = 0 THEN ""
    ELSE TextsUpTo(parts, n - 1) \o (IF parts[n].type = "text" THEN parts[n].text ELSE "")
UrlsUpTo(parts, n) ==
    IF n = 0 THEN << >>
    ELSE IF parts[n].type = "image_url" THEN Append(UrlsUpTo(parts, n - 1), parts[n].url)
         ELSE UrlsUpTo(parts, n - 1)
\* The execution of the chat request in slot r has resolved its model and
\* extracted the prompt.
Extracted(r) ==
    /\ req[r].kind = "chat"
    /\ exec[r].found
    /\ wpc[r] \notin {"none", "queued", "spawned", "lookup"}
SameLast(ms1, ms2) ==
    /\ ms1 # << >>
    /\ ms2 # << >>
    /\ ms1[Len(ms1)] = ms2[Len(ms2)]
\* C34: the prompt and the image URLs an execution passes to the backend are
\* those of the last message: a text content gives that text and no URL,
\* parts give the text parts concatenated in order and the image URLs in
\* order, an empty message list gives the empty prompt and no URL; every
\* message list with the same last message gives the same prompt, the same
\* URLs and the same routing.
C34_LastMessageOnly ==
    \A r \in Slots :
        Extracted(r) =>
            LET ms == req[r].messages
                last == ms[Len(ms)].content
            IN  /\ ms = << >> => exec[r].prompt = "" /\ exec[r].image_urls = << >>
                /\ (ms # << >> /\ last.tag = "Text") =>
                       exec[r].prompt = last.text /\ exec[r].image_urls = << >>
                /\ (ms # << >> /\ last.tag = "Parts") =>
                       /\ exec[r].prompt = TextsUpTo(last.parts, Len(last.parts))
                       /\ exec[r].image_urls = UrlsUpTo(last.parts, Len(last.parts))
                /\ \A other \in PromptMessageLists :
                       SameLast(ms, other) =>
                           /\ PromptAndImages(other).prompt = exec[r].prompt
                           /\ PromptAndImages(other).image_urls = exec[r].image_urls
                           /\ wpc[r] = "backend" =>
                                exec[r].call =
                                  (IF IsStream(req[r])
                                   THEN StreamRoute(PromptAndImages(other).image_urls,
                                                    exec[r].llm_opt, exec[r].mm_opt)
                                   ELSE BufferedRoute(PromptAndImages(other).image_urls,
                                                      exec[r].llm_opt, exec[r].mm_opt)).call
\* A backend call is in progress for a request of two messages, the first
\* with parts and image URLs, the last a plain text: the prompt is the text
\* of the last and the language runtime is called.
C34_Witness ==
    \E r \in Slots :
        /\ Extracted(r) /\ wpc[r] = "backend"
        /\ Len(req[r].messages) = 2
        /\ req[r].messages[1].content.tag = "Parts"
        /\ PartsUrls(req[r].messages[1].content.parts) # << >>
        /\ req[r].messages[2].content = Text("hello")
        /\ exec[r].prompt = "hello" /\ exec[r].image_urls = << >>
        /\ exec[r].call = "generate"

\* C35: with one permit or more, backend calls that return and fair
\* scheduling, every envelope the queue accepted is dequeued, its execution
\* gets a permit and finishes; every buffered caller that stays gets its
\* reply and every emitter is closed, so that every event stream ends, also
\* when the model is not found.
C35_EverythingFinishes ==
    \A r \in PoolSlots :
        /\ (wpc[r] = "queued") ~> (wpc[r] = "spawned")
        /\ (wpc[r] = "spawned") ~> exec[r].permit
        /\ exec[r].permit ~> (wpc[r] = "finished" /\ ~exec[r].permit)
        /\ (hpc[r] = "recv") ~>
              \/ hpc[r] = "done" /\ response_rx[r].items # << >>
              \/ hpc[r] = "gone"
        /\ (wpc[r] = "queued" /\ IsStream(req[r])) ~> stream_rx[r].tx_dropped
        /\ (hpc[r] = "sse") ~> (hpc[r] \in {"done", "gone"})
\* The event stream of a chat whose model is not found has ended, empty,
\* while the other slot's buffered caller has its reply.
C35_Witness ==
    \E r, o \in PoolSlots :
        /\ IsStream(req[r]) /\ wpc[r] = "finished" /\ ~exec[r].found
        /\ hpc[r] = "done" /\ stream_rx[r].tx_dropped
        /\ ~IsStream(req[o]) /\ hpc[o] = "done" /\ response_rx[o].items # << >>

\* C36: a buffered chat request is answered with a successful chat response
\* only if its model is in the llm or the multimodal registry when it is
\* answered from the cache, or was found there by its own execution; a
\* request naming a model that was unloaded from both is never answered
\* successfully, whatever was answered before the unload.
C36_NoSuccessAfterUnload ==
    [][\A r \in Slots :
         (IsBufferedChat(req[r]) /\ hpc[r] # "done" /\ hpc'[r] = "done"
            /\ http'[r].status = 200) =>
           \/ exec[r].found
           \/ req[r].model \in DOMAIN llm_runtimes \cup DOMAIN multimodal_runtimes]_vars

\* What the backend answers to the request q when its call succeeds.
OwnContent(q) ==
    LET pi == PromptAndImages(q.messages)
        route == BufferedRoute(pi.image_urls, q.model \in DOMAIN llm_runtimes,
                               q.model \in DOMAIN multimodal_runtimes)
    IN  BackendOk(route.call, q, pi.prompt, pi.image_urls,
                  GenerationOptions_from_request(q.max_tokens, q.temperature, q.top_p))
\* The request of slot r and q agree on all the cache key is to depend on.
SameKeyFields(r, q) ==
    /\ req[r].model = q.model
    /\ req[r].messages = q.messages
    /\ req[r].max_tokens = q.max_tokens
    /\ req[r].temperature = q.temperature
    /\ req[r].top_p = q.top_p
C37_SameKeySameRequest ==
    \A r \in Slots :
        (IsBufferedChat(req[r]) /\ hpc[r] # "idle") =>
            \A q \in KeyRequests :
                hash_chat_request(q) = Fingerprint(r) => SameKeyFields(r, q)
C37_HitStep ==
    \A r \in Slots :
        (CacheHit(r) /\ hpc'[r] = "done") =>
            http'[r].body.choices[1].message.content \in {OwnContent(req[r]), ""}
\* C37: two buffered chat requests have the same cache key only if they
\* agree on the model, on the messages (roles, texts, image URLs, text or
\* parts) and on the options present with their values; a cache hit returns
\* only a response computed for a request that agrees with it in all these.
C37_KeyInjective == []C37_SameKeySameRequest /\ [][C37_HitStep]_vars

\* C38: a streaming execution writes at most four messages to an emitter
\* that buffers 100, so none of its writes waits: whatever the client does
\* (reads, does not read, goes away), an execution that holds a permit can
\* take its next step, and a client that never reads keeps no permit.
C38_WritesNeverBlock ==
    \A r \in Slots :
        /\ Len(stream_rx[r].items) <= 4
        /\ 4 < StreamBuffer
        /\ (IsStream(req[r]) /\ exec[r].permit) =>
             /\ ENABLED ExecutionStep(r)
             /\ wpc[r] \in {"s_role", "s_content", "s_done", "s_sentinel"} =>
                  ChanCanSend(stream_rx[r], StreamBuffer)
\* The client has read nothing of its stream, the execution has written all
\* four messages, has ended and holds no permit.
C38_Witness ==
    \E r \in Slots :
        /\ IsStream(req[r]) /\ hpc[r] = "sse" /\ ~stream_rx[r].rx_closed
        /\ Len(stream_rx[r].items) = 4
        /\ wpc[r] = "finished" /\ ~exec[r].permit

\* C39: chat lookups (the llm read guard, then the multimodal read guard
\* with the first still held), embeddings and images lookups, listings,
\* loads and unloads never deadlock: every task that waits for a guard gets
\* it, and every operation begun completes.
C39_NoDeadlock ==
    \A t \in Tasks :
        /\ tasks[t].waiting ~> ~tasks[t].waiting
        /\ (tasks[t].op # "none") ~> (tasks[t].op = "none")
\* A chat lookup holds the llm read guard and waits for the multimodal read
\* guard behind a load that waits for the multimodal write guard, which a
\* listing's read guard holds back.
C39_Witness ==
    \E t, u, v \in Tasks :
        /\ tasks[t].op = "chat" /\ t \in rwlock["llm"].readers
        /\ tasks[u].op = "load" /\ tasks[v].op = "list"
        /\ rwlock["multimodal"].readers = {v}
        /\ rwlock["multimodal"].waiters = << u, t >>

\* The entry of a name in the registry of a kind, before and after the step.
EntryOf(kind, name) == CacheGet(RegistryOf(kind), name)
EntryAfter(kind, name) == CacheGet(RegistryAfter(kind), name)
RegisteredNames(kind) == DOMAIN RegistryOf(kind) \cup DOMAIN RegistryAfter(kind)
\* The step leaves every registry entry but that of name in kind, the cache
\* and the queue as they were.
OnlyEntryChanged(kind, name) ==
    /\ \A k \in ListKinds :
         \A n \in RegisteredNames(k) :
             (k # kind \/ n # name) => EntryAfter(k, n) = EntryOf(k, n)
    /\ response_cache' = response_cache
    /\ request_queue' = request_queue
C40_AdminStep ==
    \A k \in AdminKinds, n \in FrameNames :
        (LoadModel(k, n) \/ UnloadModel(k, n)) => OnlyEntryChanged(k, n)
C40_RequestStep ==
    (\E r \in Slots : hpc'[r] # hpc[r] \/ wpc'[r] # wpc[r]) => registries' = registries
\* C40: load(kind, name) and unload(kind, name) change only the entry of that
\* name in the registry of that kind: the other names of the registry, the
\* other registries (the same name included), the cache and the queue stay
\* as they were; the image registry never changes after construction; and no
\* step of a chat, embeddings or images request changes a registry.
C40_Frame ==
    [][C40_AdminStep /\ C40_RequestStep /\ image_runtimes' = image_runtimes]_vars
\* A custom model is loaded for llm only, beside the dummy, the dummy is
\* unloaded from multimodal only, and the cache holds a response.
C40_Witness ==
    /\ DOMAIN llm_runtimes = {"dummy-model", "custom-model"}
    /\ DOMAIN multimodal_runtimes = { }
    /\ DOMAIN embedding_runtimes = {"dummy-embedding"}
    /\ DOMAIN image_runtimes = {"dummy-image"}
    /\ response_cache # << >>
====
